---- MODULE Spec2Model ----
(***************************************************************************)
(* CareCompanion: the per-turn orchestration loop of GroqMedicalAgent      *)
(* (server/src/agents/groq/rag.ts): handleMessage, the completion loop,    *)
(* tool dispatch, publishing, and the token-budgeted history assembler;    *)
(* the knowledge retrieval of the same class, the character-capped history *)
(* assembler of GroqAiAgent.ts, and the client's streaming text extractor  *)
(* (client/src/components/chat-message.tsx).                               *)
(*                                                                         *)
(* Texts are TLA+ strings; TLC evaluates Len, \o, Head, Tail and SubSeq on *)
(* them, so the string functions below work character by character.        *)
(***************************************************************************)
EXTENDS Integers, Sequences, FiniteSets, TLC

(***************************************************************************)
(* Strings                                                                 *)
(***************************************************************************)
Ch(s, i) == SubSeq(s, i, i)

IsWs(c) == c \in {" ", "\n", "\t", "\r"}

RECURSIVE TrimStart(_)
TrimStart(s) == IF Len(s) > 0 /\ IsWs(Head(s)) THEN TrimStart(Tail(s)) ELSE s

RECURSIVE TrimEnd(_)
TrimEnd(s) ==
    IF Len(s) > 0 /\ IsWs(Ch(s, Len(s)))
    THEN TrimEnd(SubSeq(s, 1, Len(s) - 1))
    ELSE s

\* String.prototype.trim
Trim(s) == TrimEnd(TrimStart(s))

\* estimateTokens: Math.ceil(text.length / 4)
estimateTokens(text) == (Len(text) + 3) \div 4

(***************************************************************************)
(* JavaScript values and JSON.parse                                        *)
(*   k: "undef" | "null" | "bool" | "num" | "str" | "obj" | "arr"          *)
(*   s: the string (str) or the literal as written (num)                   *)
(*   n: 1 for true, 0 for false (bool); 0 iff the number is zero (num)     *)
(*   f: the members in source order, <<[key, val], ...>> (obj, arr)        *)
(***************************************************************************)
JSUndefined == [k |-> "undef", s |-> "", n |-> 0, f |-> <<>>]
JSNull == [k |-> "null", s |-> "", n |-> 0, f |-> <<>>]
JSBool(b) == [k |-> "bool", s |-> "", n |-> IF b THEN 1 ELSE 0, f |-> <<>>]
JSNum(lit, nonzero) == [k |-> "num", s |-> lit, n |-> IF nonzero THEN 1 ELSE 0, f |-> <<>>]
JSStr(str) == [k |-> "str", s |-> str, n |-> 0, f |-> <<>>]
JSObj(members) == [k |-> "obj", s |-> "", n |-> 0, f |-> members]
JSArr(members) == [k |-> "arr", s |-> "", n |-> 0, f |-> members]

\* ToBoolean
Truthy(v) ==
    CASE v.k \in {"undef", "null"} -> FALSE
      [] v.k \in {"bool", "num"} -> v.n # 0
      [] v.k = "str" -> v.s # ""
      [] OTHER -> TRUE

\* v.key where v is neither null nor undefined (the last duplicate key wins)
RECURSIVE Lookup(_, _, _)
Lookup(members, key, i) ==
    IF i = 0 THEN JSUndefined
    ELSE IF members[i].key = key THEN members[i].val
    ELSE Lookup(members, key, i - 1)

GetProp(v, key) == IF v.k = "obj" THEN Lookup(v.f, key, Len(v.f)) ELSE JSUndefined

\* v.key raises a TypeError on null and undefined
PropThrows(v) == v.k \in {"undef", "null"}

Digits == {"0", "1", "2", "3", "4", "5", "6", "7", "8", "9"}

RECURSIVE SkipWs(_, _)
SkipWs(s, i) == IF i <= Len(s) /\ IsWs(Ch(s, i)) THEN SkipWs(s, i + 1) ELSE i

RECURSIVE SkipDigits(_, _)
SkipDigits(s, i) == IF i <= Len(s) /\ Ch(s, i) \in Digits THEN SkipDigits(s, i + 1) ELSE i

RECURSIVE AllZero(_)
AllZero(lit) ==
    \/ lit = ""
    \/ /\ Head(lit) \in {"0", "-", "."}
       /\ AllZero(Tail(lit))

ParseFail == [ok |-> FALSE, val |-> JSUndefined, pos |-> 0]
ParseOk(v, p) == [ok |-> TRUE, val |-> v, pos |-> p]

\* Each intermediate result below is bound once, as the single element of a set
\* ({e : x \in {result}}), so that it is computed once wherever it is used.

\* the body of a string literal from position i, acc the characters decoded so far
RECURSIVE ScanString(_, _, _)
ScanString(s, i, acc) ==
    IF i > Len(s) THEN ParseFail
    ELSE LET c == Ch(s, i) IN
         IF c = "\"" THEN ParseOk(JSStr(acc), i + 1)
         ELSE IF c \in {"\n", "\t", "\r"} THEN ParseFail
         ELSE IF c = "\\" THEN
              IF i + 1 > Len(s) THEN ParseFail
              ELSE LET e == Ch(s, i + 1) IN
                   CASE e = "\"" -> ScanString(s, i + 2, acc \o "\"")
                     [] e = "\\" -> ScanString(s, i + 2, acc \o "\\")
                     [] e = "/" -> ScanString(s, i + 2, acc \o "/")
                     [] e = "n" -> ScanString(s, i + 2, acc \o "\n")
                     [] e = "t" -> ScanString(s, i + 2, acc \o "\t")
                     [] e = "r" -> ScanString(s, i + 2, acc \o "\r")
                     [] OTHER -> ParseFail
         ELSE ScanString(s, i + 1, acc \o c)

\* -? digits (. digits)?
ParseNumber(s, i) ==
    LET start == IF Ch(s, i) = "-" THEN i + 1 ELSE i
        intEnd == SkipDigits(s, start)
        fracEnd == IF intEnd <= Len(s) /\ Ch(s, intEnd) = "." THEN SkipDigits(s, intEnd + 1) ELSE intEnd
        lit == SubSeq(s, i, fracEnd - 1)
    IN  IF intEnd = start THEN ParseFail
        ELSE IF intEnd - start > 1 /\ Ch(s, start) = "0" THEN ParseFail
        ELSE IF fracEnd = intEnd + 1 THEN ParseFail
        ELSE ParseOk(JSNum(lit, ~AllZero(lit)), fracEnd)

RECURSIVE ParseValue(_, _), ParseMembers(_, _, _), ParseElements(_, _, _)

\* a JSON value starting at or after position i (leading white space skipped)
ParseValue(s, i) ==
    CHOOSE r \in {
    IF p > Len(s) THEN ParseFail
    ELSE LET c == Ch(s, p) IN
         CASE c = "\"" -> ScanString(s, p + 1, "")
           [] c = "{" ->
                LET q == SkipWs(s, p + 1) IN
                IF q <= Len(s) /\ Ch(s, q) = "}" THEN ParseOk(JSObj(<<>>), q + 1)
                ELSE ParseMembers(s, q, <<>>)
           [] c = "[" ->
                LET q == SkipWs(s, p + 1) IN
                IF q <= Len(s) /\ Ch(s, q) = "]" THEN ParseOk(JSArr(<<>>), q + 1)
                ELSE ParseElements(s, q, <<>>)
           [] c \in Digits \cup {"-"} -> ParseNumber(s, p)
           [] p + 3 <= Len(s) /\ SubSeq(s, p, p + 3) = "null" -> ParseOk(JSNull, p + 4)
           [] p + 3 <= Len(s) /\ SubSeq(s, p, p + 3) = "true" -> ParseOk(JSBool(TRUE), p + 4)
           [] p + 4 <= Len(s) /\ SubSeq(s, p, p + 4) = "false" -> ParseOk(JSBool(FALSE), p + 5)
           [] OTHER -> ParseFail
    : p \in {SkipWs(s, i)} } : TRUE

\* "key" : value ( , members | } ), position i at the key's opening quote
ParseMembers(s, i, acc) ==
    IF i > Len(s) \/ Ch(s, i) # "\"" THEN ParseFail
    ELSE CHOOSE r \in {
         IF ~key.ok THEN ParseFail
         ELSE LET c == SkipWs(s, key.pos) IN
              IF c > Len(s) \/ Ch(s, c) # ":" THEN ParseFail
              ELSE CHOOSE r2 \in {
                   IF ~v.ok THEN ParseFail
                   ELSE LET e == SkipWs(s, v.pos) IN
                        IF e > Len(s) THEN ParseFail
                        ELSE IF Ch(s, e) = "}"
                        THEN ParseOk(JSObj(Append(acc, [key |-> key.val.s, val |-> v.val])), e + 1)
                        ELSE IF Ch(s, e) = ","
                        THEN CHOOSE r3 \in {ParseMembers(s, next, all) :
                                 next \in {SkipWs(s, e + 1)},
                                 all \in {Append(acc, [key |-> key.val.s, val |-> v.val])}} : TRUE
                        ELSE ParseFail
                   : v \in {ParseValue(s, c + 1)} } : TRUE
         : key \in {ScanString(s, i + 1, "")} } : TRUE

\* value ( , elements | ] )
ParseElements(s, i, acc) ==
    CHOOSE r \in {
    IF ~v.ok THEN ParseFail
    ELSE LET e == SkipWs(s, v.pos) IN
         IF e > Len(s) THEN ParseFail
         ELSE IF Ch(s, e) = "]" THEN ParseOk(JSArr(Append(acc, [key |-> "", val |-> v.val])), e + 1)
         ELSE IF Ch(s, e) = ","
         THEN CHOOSE r2 \in {ParseElements(s, next, all) :
                  next \in {e + 1},
                  all \in {Append(acc, [key |-> "", val |-> v.val])}} : TRUE
         ELSE ParseFail
    : v \in {ParseValue(s, i)} } : TRUE

\* JSON.parse: ok = FALSE stands for the SyntaxError it raises
JSONParse(s) ==
    CHOOSE r \in {
    IF v.ok /\ SkipWs(s, v.pos) = Len(s) + 1 THEN [ok |-> TRUE, val |-> v.val]
    ELSE [ok |-> FALSE, val |-> JSUndefined]
    : v \in {ParseValue(s, 1)} } : TRUE

(***************************************************************************)
(* Bounds of the model and constants of the program                        *)
(***************************************************************************)
MaxRounds == 2          \* provider requests opened in one turn
MaxChunks == 3          \* stream chunks consumed in one turn
MaxHistory == 4         \* messages of a transport history given to the assembler alone
MaxFragment == 2        \* characters of a name or arguments fragment (or all that is left)
MaxTime == 3000         \* last clock value (ms) the model reads
TimeStep == 500         \* a clock read is 0, ThrottleMs or ThrottleMs + TimeStep later than the last

MIN_HISTORY_MESSAGES == 3
MAX_TOTAL_TOKENS == 28000
SYSTEM_PROMPT_TOKENS == 2000
CURRENT_MESSAGE_TOKENS == 500
ThrottleMs == 1000

FallbackEnvelope ==
    "{\"lang\": \"en-US\", \"text\": \"I apologize, but I encountered an error. Please try again.\"}"

(***************************************************************************)
(* State of one GroqMedicalAgent and of the turn handleMessage is running  *)
(***************************************************************************)
VARIABLES
    pc,                   \* where handleMessage stands (its suspension points)
    now,                  \* the last value Date.now() returned
    channel,              \* the transport's messages of the channel, oldest first
    message,              \* const message = parsedMessage?.text
    lat, long,            \* parsedMessage?.location?.lat / .long (JS values)
    retrievedContext,     \* result of retrieveFromPinecone
    conversationHistory,  \* result of getConversationHistory
    locationName,         \* result of reverseGeocode, "" while undefined
    conversationMessages, \* the message list sent to the provider
    accumulatedText,
    lastUpdate,
    currentContent,
    roundContent,         \* the delta.content values of the round's chunks, in order of arrival
    toolCalls,            \* the sparse array toolCalls of the round
    toolResults,
    callIdx,              \* position of the for-of loop over toolCalls
    rounds,               \* provider requests opened so far
    chunks,               \* stream chunks consumed so far
    transport,            \* what the turn wrote to the transport, in order
    toolLog,              \* adapter invocations (channel.query, searchWeb, sendEmergencyAlert), in order
    raised,               \* the call whose exception entered the catch block, "" if none
    lastInteractionTs,
    channelMessage,       \* position in channel of the placeholder sendMessage created, 0 if none
    histMessages,         \* input of the history assembler checked on its own
    histMaxTokens,
    histResult,
    deltaWhole,           \* the calls of indices 0 and 1 the provider streams in fragments
    deltaRest,            \* what of each call's name and arguments is still to come
    deltaCalls,           \* the toolCalls array accumulated from the fragments
    capResult,            \* result of the character-capped history assembler on histMessages
    embedOutcome,         \* what the embedding service does for the retrieval checked on its own
    storeResponse,        \* what the vector store does: it raises, or it answers with matches
    retrieveResult,       \* what retrieveFromPinecone did and returned
    streamed,             \* the envelope the client is shown a fragment of, and where it is cut
    extractResult,        \* result of extractTextFromStreamingJSON on that fragment
    parseLog,             \* the JSON.parse calls on tool-call arguments, in order
    roundStart,           \* length of the transport log when the round's stream was opened
    turns,                \* the locals of each handleMessage invocation of a session
    publishes,            \* the transport calls of each invocation of a session, in order
    stops,                \* ai_indicator.stop events the chat client received
    disposePc,            \* where dispose stands: "idle" while it has not been called
    unheard,              \* message.new events emitted while handleMessage was not registered
    newChat               \* the chat client's handleNewChatMessage: its locals and what it did

vars == <<pc, now, channel, message, lat, long, retrievedContext, conversationHistory,
          locationName, conversationMessages, accumulatedText, lastUpdate,
          currentContent, roundContent, toolCalls, toolResults, callIdx, rounds, chunks,
          transport, toolLog, raised, lastInteractionTs, channelMessage,
          histMessages, histMaxTokens, histResult, deltaWhole, deltaRest, deltaCalls,
          capResult, embedOutcome, storeResponse, retrieveResult, streamed, extractResult,
          parseLog, roundStart, turns, publishes, stops, disposePc, unheard, newChat>>

agentVars == <<pc, now, channel, message, lat, long, retrievedContext, conversationHistory,
               locationName, conversationMessages, accumulatedText, lastUpdate,
               currentContent, roundContent, toolCalls, toolResults, callIdx, rounds, chunks,
               transport, toolLog, raised, lastInteractionTs, channelMessage, parseLog, roundStart>>
histVars == <<histMessages, histMaxTokens, histResult>>
deltaVars == <<deltaWhole, deltaRest, deltaCalls>>
capVars == <<capResult>>
retrVars == <<embedOutcome, storeResponse, retrieveResult>>
extrVars == <<streamed, extractResult>>
sessVars == <<turns, publishes, stops, disposePc, unheard, newChat>>

turnVars == <<message, lat, long>>
prepVars == <<retrievedContext, conversationHistory, locationName>>
loopVars == <<conversationMessages, accumulatedText, lastUpdate, currentContent,
              roundContent, toolCalls, toolResults, callIdx, rounds, chunks>>

\* values Date.now() can return next: the clock never goes back
ClockReads == {t \in {now, now + ThrottleMs, now + ThrottleMs + TimeStep} : t <= MaxTime}

(***************************************************************************)
(* getConversationHistory (token-budgeted), rag.ts 198-251                 *)
(***************************************************************************)
\* messageText of a transport message: parsed.text || msg.text, msg.text when
\* JSON.parse or the property read raises (the inner try/catch)
DecodeHistoryText(text) ==
    CHOOSE r \in {
    IF ~parsed.ok \/ PropThrows(parsed.val) THEN JSStr(text)
    ELSE IF Truthy(GetProp(parsed.val, "text")) THEN GetProp(parsed.val, "text")
    ELSE JSStr(text)
    : parsed \in {JSONParse(text)} } : TRUE

\* variant: the floor test with <= for <
IsRecentMessageInclusive(history) == Len(history) <= MIN_HISTORY_MESSAGES

\* const isRecentMessage = history.length < this.MIN_HISTORY_MESSAGES
IsRecentMessage(history) == Len(history) < MIN_HISTORY_MESSAGES

\* variant: the turn is added at the end
Push(history, turn) == Append(history, turn)

\* line 241: history.unshift({ role, content: messageText })
Unshift(history, turn) == <<turn>> \o history

\* the for loop over messages[i], i = messages.length - 1 .. 0 (here i = Len .. 1);
\* threw: messageText.trim raised (messageText is not a string), the outer catch
RECURSIVE HistoryLoop(_, _, _, _, _)
HistoryLoop(messages, i, history, totalTokens, maxTokens) ==
    IF i = 0 THEN [threw |-> FALSE, history |-> history]
    ELSE CHOOSE r \in {
         LET msg == messages[i] IN
             IF msg.text = "" THEN HistoryLoop(messages, i - 1, history, totalTokens, maxTokens)
             ELSE IF ~Truthy(messageText) THEN HistoryLoop(messages, i - 1, history, totalTokens, maxTokens)
             ELSE IF messageText.k # "str" THEN [threw |-> TRUE, history |-> history]
             ELSE IF Trim(messageText.s) = "" THEN HistoryLoop(messages, i - 1, history, totalTokens, maxTokens)
             ELSE LET role == IF msg.ai_generated THEN "assistant" ELSE "user"
                      msgTokens == estimateTokens(messageText.s)
                  IN  IF ~IsRecentMessage(history) /\ totalTokens + msgTokens > maxTokens
                      THEN [threw |-> FALSE, history |-> history]
                      ELSE CHOOSE r2 \in {HistoryLoop(messages, i - 1, longer, total, maxTokens) :
                               longer \in {Unshift(history, [role |-> role, content |-> messageText.s])},
                               total \in {totalTokens + msgTokens}} : TRUE
         : messageText \in {IF messages[i].text = "" THEN JSUndefined
                            ELSE DecodeHistoryText(messages[i].text)} } : TRUE

\* variant: a failed query is not noticed and the loop runs over what the channel holds
getConversationHistoryUnguarded(messages, maxTokens, queryFails) ==
    IF Len(messages) = 0 THEN <<>>
    ELSE LET r == HistoryLoop(messages, Len(messages), <<>>, 0, maxTokens) IN
         IF r.threw THEN <<>> ELSE r.history

\* queryFails: this.channel.query raised
getConversationHistory(messages, maxTokens, queryFails) ==
    IF queryFails \/ Len(messages) = 0 THEN <<>>
    ELSE LET r == HistoryLoop(messages, Len(messages), <<>>, 0, maxTokens) IN
         IF r.threw THEN <<>> ELSE r.history

(***************************************************************************)
(* handleMessage up to the try block, rag.ts 435-506                       *)
(***************************************************************************)
Msg(text, ai) == [text |-> text, ai_generated |-> ai]

\* channel contents when the agent starts listening
PriorChannels ==
    { << Msg("{\"text\":\"hi\"}", FALSE), Msg("{\"lang\": \"en-US\", \"text\": \"Hello\"}", TRUE) >> }

\* message.new events: hasMessage = FALSE is an event without e.message;
\* text = "" also stands for a message without text (e.message.text ?? "")
InboundEvents ==
    { [hasMessage |-> FALSE, ai_generated |-> FALSE, text |-> ""],
      [hasMessage |-> TRUE, ai_generated |-> TRUE, text |-> "{\"lang\": \"en-US\", \"text\": \"Hello\"}"],
      [hasMessage |-> TRUE, ai_generated |-> FALSE, text |-> ""],
      [hasMessage |-> TRUE, ai_generated |-> FALSE, text |-> "{\"text\":\"\"}"],
      [hasMessage |-> TRUE, ai_generated |-> FALSE, text |-> "i want to die"],
      [hasMessage |-> TRUE, ai_generated |-> FALSE, text |-> "12345"],
      [hasMessage |-> TRUE, ai_generated |-> FALSE, text |-> "null"],
      [hasMessage |-> TRUE, ai_generated |-> FALSE,
       text |-> "{\"text\":\"hospital near me\",\"location\":{\"lat\":13.08,\"long\":80.27}}"] }

\* JSON.parse(e.message.text ?? "") with its catch: { text: raw } when it raises
DecodeInbound(text) ==
    LET parsed == JSONParse(text) IN
    IF parsed.ok THEN parsed.val ELSE JSObj(<<[key |-> "text", val |-> JSStr(text)]>>)

\* a?.key
OptProp(v, key) == IF PropThrows(v) THEN JSUndefined ELSE GetProp(v, key)

Transport(op, arg) == [op |-> op, arg |-> arg]

\* a call of an adapter: ok = FALSE when it raised or reported a failure
Invocation(tool, arg, ok) == [tool |-> tool, arg |-> arg, ok |-> ok]

RetrievedContexts == {"", "[Source: Medical Database]\nRest and fluids."}
PlaceNames == {"your location", "Chennai, India"}

\* variant: the reserves for the system prompt and the current message are not taken off
availableForHistoryUnreserved(context) == MAX_TOTAL_TOKENS - estimateTokens(context)

availableForHistory(context) ==
    MAX_TOTAL_TOKENS - SYSTEM_PROMPT_TOKENS - estimateTokens(context) - CURRENT_MESSAGE_TOKENS

\* variants of the catch block: one that publishes the fallback without the status
\* event, one that opens the provider request again
CatchEntrySkipsEvent == "catchUpdate"
CatchEntryRetries == "create"

\* the catch block starts with the AI_STATE_ERROR status event
CatchEntry == "catchEvent"

\* lines 435-452: the event is ignored, or the turn starts
HandleMessage(e) ==
    /\ pc = "idle"
    /\ channel' = IF e.hasMessage THEN Append(channel, Msg(e.text, e.ai_generated)) ELSE channel
    /\ IF ~e.hasMessage \/ e.ai_generated
       THEN /\ pc' = "ignored"
            /\ UNCHANGED <<now, message, lat, long, lastInteractionTs>>
       ELSE LET parsedMessage == DecodeInbound(e.text)
                location == OptProp(parsedMessage, "location")
                text == OptProp(parsedMessage, "text")
            IN  /\ message' = text
                /\ lat' = OptProp(location, "lat")
                /\ long' = OptProp(location, "long")
                /\ IF ~Truthy(text)
                   THEN /\ pc' = "ignored"
                        /\ UNCHANGED <<now, lastInteractionTs>>
                   ELSE /\ lastInteractionTs' = now
                        /\ pc' = "retrieve"
                        /\ UNCHANGED now
    /\ UNCHANGED <<parseLog, roundStart, prepVars, loopVars, transport, toolLog, raised, channelMessage>>

\* lines 456-457: retrieveFromPinecone never raises
Retrieve ==
    /\ pc = "retrieve"
    /\ \E ctx \in RetrievedContexts : retrievedContext' = ctx
    /\ pc' = "history"
    /\ UNCHANGED <<parseLog, roundStart, now, channel, turnVars, conversationHistory, locationName, loopVars,
                   transport, toolLog, raised, lastInteractionTs, channelMessage>>

\* lines 460-469 and 483-484
GetHistory ==
    /\ pc = "history"
    /\ \E queryFails \in BOOLEAN :
          /\ conversationHistory' =
                 getConversationHistory(channel, availableForHistory(retrievedContext), queryFails)
          /\ toolLog' = Append(toolLog, Invocation("channel.query", "", ~queryFails))
    /\ pc' = IF Truthy(lat) /\ Truthy(long) THEN "geocode" ELSE "sendMessage"
    /\ UNCHANGED <<parseLog, roundStart, now, channel, turnVars, retrievedContext, locationName, loopVars,
                   transport, raised, lastInteractionTs, channelMessage>>

\* line 485: reverseGeocode never raises
Geocode ==
    /\ pc = "geocode"
    /\ \E place \in PlaceNames : locationName' = place
    /\ pc' = "sendMessage"
    /\ UNCHANGED <<parseLog, roundStart, now, channel, turnVars, retrievedContext, conversationHistory, loopVars,
                   transport, toolLog, raised, lastInteractionTs, channelMessage>>

\* lines 496-499: the placeholder; a raise here is outside the try block
SendPlaceholder ==
    /\ pc = "sendMessage"
    /\ \E ok \in BOOLEAN :
          IF ok
          THEN /\ channel' = Append(channel, Msg("", TRUE))
               /\ channelMessage' = Len(channel) + 1
               /\ transport' = Append(transport, Transport("sendMessage", ""))
               /\ pc' = "sendThinking"
          ELSE /\ pc' = "rejected"
               /\ UNCHANGED <<channel, channelMessage, transport>>
    /\ UNCHANGED <<parseLog, roundStart, now, turnVars, prepVars, loopVars, toolLog, raised, lastInteractionTs>>

\* the system prompt, by what it is built from (getMedicalCompanionPrompt)
Prompt == "User Location: " \o (IF locationName # "" THEN locationName ELSE "Not available")
          \o (IF retrievedContext # "" THEN "\n\nRELEVANT MEDICAL KNOWLEDGE (from database):\n" \o retrievedContext ELSE "")

Turn(role, content) ==
    [role |-> role, content |-> content, tool_calls |-> <<>>, tool_call_id |-> ""]

\* lines 555-562: conversationHistory.filter drops the last entry when it is a user
\* turn whose content is the current message (a JS value)
historyToAdd(history, current) ==
    LET n == Len(history) IN
    IF n > 0 /\ history[n].role = "user" /\ JSStr(history[n].content) = current
    THEN SubSeq(history, 1, n - 1)
    ELSE history

HistoryToAdd == historyToAdd(conversationHistory, message)

\* lines 501-571: the THINKING event (outside the try block), then the message list
SendThinking ==
    /\ pc = "sendThinking"
    /\ \E ok \in BOOLEAN :
          IF ok
          THEN /\ transport' = Append(transport, Transport("ai_indicator.update", "AI_STATE_THINKING"))
               /\ conversationMessages' =
                      <<Turn("system", Prompt)>>
                      \o [i \in 1..Len(HistoryToAdd) |-> Turn(HistoryToAdd[i].role, HistoryToAdd[i].content)]
                      \o <<Turn("user", message.s)>>
               /\ accumulatedText' = ""
               /\ lastUpdate' = now
               /\ pc' = "create"
          ELSE /\ pc' = "rejected"
               /\ UNCHANGED <<transport, conversationMessages, accumulatedText, lastUpdate>>
    /\ UNCHANGED <<parseLog, roundStart, now, channel, turnVars, prepVars, currentContent, roundContent, toolCalls,
                   toolResults, callIdx, rounds, chunks, toolLog, raised, lastInteractionTs,
                   channelMessage>>

(***************************************************************************)
(* The completion loop, rag.ts 573-682                                     *)
(***************************************************************************)
\* a slot of the sparse array toolCalls; hole = TRUE is an index never assigned
Hole == [hole |-> TRUE, id |-> "", name |-> "", arguments |-> ""]

ToolDelta(index, id, name, arguments) ==
    [index |-> index, id |-> id, name |-> name, arguments |-> arguments]

\* variant: a fragment replaces the name and the arguments instead of extending them
MergeToolCallDeltaOverwrite(calls, tc, t) ==
    IF tc.index < 0 THEN calls
    ELSE LET slot == tc.index + 1
             ext == IF slot > Len(calls)
                    THEN calls \o [i \in 1..(slot - Len(calls)) |-> Hole]
                    ELSE calls
             cur == IF ext[slot].hole
                    THEN [hole |-> FALSE,
                          id |-> IF tc.id # "" THEN tc.id
                                 ELSE "call_" \o ToString(t) \o "_" \o ToString(tc.index),
                          name |-> "", arguments |-> ""]
                    ELSE ext[slot]
         IN  [ext EXCEPT ![slot] = [cur EXCEPT !.name = IF tc.name # "" THEN tc.name ELSE @,
                                                !.arguments = IF tc.arguments # "" THEN tc.arguments ELSE @]]

\* lines 605-619 for one element tc of delta.tool_calls, t the value of Date.now();
\* index < 0 is tc.index === undefined, id = "" a delta without id
MergeToolCallDelta(calls, tc, t) ==
    IF tc.index < 0 THEN calls
    ELSE LET slot == tc.index + 1
             ext == IF slot > Len(calls)
                    THEN calls \o [i \in 1..(slot - Len(calls)) |-> Hole]
                    ELSE calls
             cur == IF ext[slot].hole
                    THEN [hole |-> FALSE,
                          id |-> IF tc.id # "" THEN tc.id
                                 ELSE "call_" \o ToString(t) \o "_" \o ToString(tc.index),
                          name |-> "", arguments |-> ""]
                    ELSE ext[slot]
         IN  [ext EXCEPT ![slot] = [cur EXCEPT !.name = @ \o tc.name,
                                                !.arguments = @ \o tc.arguments]]

\* text deltas and tool-call deltas the provider streams in this model
ContentDeltas == {"a", " "}
ToolDeltas ==
    { ToolDelta(0, "c0", "tool_alert", "{\"reason\":"),
      ToolDelta(0, "", "", "\"risk\"}"),
      ToolDelta(0, "c0", "tool_search", "{\"query\":\"clinic\"}"),
      ToolDelta(0, "c0", "tool_lookup", "{}"),
      ToolDelta(1, "c1", "tool_alert", "{}") }

\* line 574: the provider request of a round
CreateCompletion ==
    /\ pc = "create"
    /\ rounds < MaxRounds
    /\ rounds' = rounds + 1
    /\ \E ok \in BOOLEAN :
          IF ok
          THEN /\ currentContent' = ""
               /\ roundContent' = <<>>
               /\ toolCalls' = <<>>
               /\ roundStart' = Len(transport)
               /\ pc' = "stream"
               /\ UNCHANGED raised
          ELSE /\ raised' = "create"
               /\ pc' = CatchEntry
               /\ UNCHANGED <<currentContent, roundContent, toolCalls, roundStart>>
    /\ UNCHANGED <<parseLog, now, channel, turnVars, prepVars, conversationMessages, accumulatedText,
                   lastUpdate, toolResults, callIdx, chunks, transport, toolLog,
                   lastInteractionTs, channelMessage>>

\* variant: the throttle test with >= for >
ThrottleElapsedInclusive(t, last) == t - last >= ThrottleMs

\* line 595: Date.now() - lastUpdate > 1000
ThrottleElapsed(t, last) == t - last > ThrottleMs

\* lines 588-601: a chunk with delta.content (an empty content is skipped)
StreamContent(content, t) ==
    /\ pc = "stream"
    /\ chunks < MaxChunks
    /\ chunks' = chunks + 1
    /\ now' = t
    /\ currentContent' = currentContent \o content
    /\ roundContent' = Append(roundContent, content)
    /\ pc' = IF content # "" /\ ThrottleElapsed(t, lastUpdate) THEN "partialUpdate" ELSE "stream"
    /\ UNCHANGED <<parseLog, roundStart, channel, turnVars, prepVars, conversationMessages, accumulatedText,
                   lastUpdate, toolCalls, toolResults, callIdx, rounds, transport, toolLog,
                   raised, lastInteractionTs, channelMessage>>

\* variant: the partial publish flushes the round's buffer it has just published
PartialUpdateFlushing ==
    /\ pc = "partialUpdate"
    /\ \E ok \in BOOLEAN :
          IF ok
          THEN /\ transport' = Append(transport, Transport("partial", accumulatedText \o currentContent))
               /\ channel' = [channel EXCEPT ![channelMessage].text = accumulatedText \o currentContent]
               /\ \E t \in ClockReads : now' = t /\ lastUpdate' = t
               /\ currentContent' = ""
               /\ pc' = "stream"
               /\ UNCHANGED raised
          ELSE /\ raised' = "partialUpdate"
               /\ pc' = CatchEntry
               /\ UNCHANGED <<transport, channel, now, lastUpdate, currentContent>>
    /\ UNCHANGED <<parseLog, roundStart, turnVars, prepVars, conversationMessages, accumulatedText,
                   roundContent, toolCalls, toolResults, callIdx, rounds, chunks, toolLog,
                   lastInteractionTs, channelMessage>>

\* lines 596-599: the throttled partial publish and lastUpdate = Date.now()
PartialUpdate ==
    /\ pc = "partialUpdate"
    /\ \E ok \in BOOLEAN :
          IF ok
          THEN /\ transport' = Append(transport, Transport("partial", accumulatedText \o currentContent))
               /\ channel' = [channel EXCEPT ![channelMessage].text = accumulatedText \o currentContent]
               /\ \E t \in ClockReads : now' = t /\ lastUpdate' = t
               /\ pc' = "stream"
               /\ UNCHANGED raised
          ELSE /\ raised' = "partialUpdate"
               /\ pc' = CatchEntry
               /\ UNCHANGED <<transport, channel, now, lastUpdate>>
    /\ UNCHANGED <<parseLog, roundStart, turnVars, prepVars, conversationMessages, accumulatedText, currentContent,
                   roundContent, toolCalls, toolResults, callIdx, rounds, chunks, toolLog,
                   lastInteractionTs, channelMessage>>

\* lines 603-621: a chunk with delta.tool_calls = [tc]
StreamToolCalls(tc) ==
    /\ pc = "stream"
    /\ chunks < MaxChunks
    /\ chunks' = chunks + 1
    /\ toolCalls' = MergeToolCallDelta(toolCalls, tc, now)
    /\ UNCHANGED <<parseLog, roundStart, pc, now, channel, turnVars, prepVars, conversationMessages, accumulatedText,
                   lastUpdate, currentContent, roundContent, toolResults, callIdx, rounds,
                   transport, toolLog, raised, lastInteractionTs, channelMessage>>

\* line 588: reading the stream raises
StreamError ==
    /\ pc = "stream"
    /\ raised' = "stream"
    /\ pc' = CatchEntry
    /\ UNCHANGED <<parseLog, roundStart, now, channel, turnVars, prepVars, loopVars, transport, toolLog,
                   lastInteractionTs, channelMessage>>

\* variant: the loop is left when no accumulated call has a name
NoNamedToolCalls(calls) == \A i \in DOMAIN calls : calls[i].hole \/ calls[i].name = ""

\* line 625: toolCalls.length === 0
NoToolCalls(calls) == Len(calls) = 0

\* variant: the round's content is not added to the answer
DropRound(accumulated, content) == accumulated

\* line 626: accumulatedText += currentContent
AppendRound(accumulated, content) == accumulated \o content

\* lines 624-631: the stream ended
StreamEnd ==
    /\ pc = "stream"
    /\ IF NoToolCalls(toolCalls)
       THEN /\ accumulatedText' = AppendRound(accumulatedText, currentContent)
            /\ pc' = "finalUpdate"
            /\ UNCHANGED <<toolResults, callIdx>>
       ELSE /\ toolResults' = <<>>
            /\ callIdx' = 1
            /\ pc' = "dispatch"
            /\ UNCHANGED accumulatedText
    /\ UNCHANGED <<parseLog, roundStart, now, channel, turnVars, prepVars, conversationMessages, lastUpdate,
                   currentContent, roundContent, toolCalls, rounds, chunks, transport, toolLog,
                   raised, lastInteractionTs, channelMessage>>

(***************************************************************************)
(* Tool dispatch, rag.ts 630-682                                           *)
(***************************************************************************)
LowerOf(c) ==
    CASE c = "A" -> "a" [] c = "B" -> "b" [] c = "C" -> "c" [] c = "D" -> "d"
      [] c = "E" -> "e" [] c = "F" -> "f" [] c = "G" -> "g" [] c = "H" -> "h"
      [] c = "I" -> "i" [] c = "J" -> "j" [] c = "K" -> "k" [] c = "L" -> "l"
      [] c = "M" -> "m" [] c = "N" -> "n" [] c = "O" -> "o" [] c = "P" -> "p"
      [] c = "Q" -> "q" [] c = "R" -> "r" [] c = "S" -> "s" [] c = "T" -> "t"
      [] c = "U" -> "u" [] c = "V" -> "v" [] c = "W" -> "w" [] c = "X" -> "x"
      [] c = "Y" -> "y" [] c = "Z" -> "z" [] OTHER -> c

RECURSIVE toLowerCase(_)
toLowerCase(s) == IF s = "" THEN "" ELSE LowerOf(Head(s)) \o toLowerCase(Tail(s))

\* String.prototype.includes
Includes(s, sub) ==
    \E i \in 1..(Len(s) - Len(sub) + 1) : SubSeq(s, i, i + Len(sub) - 1) = sub

\* lines 641-647
isLocationQuery(searchQuery) ==
    \E word \in {"near", "hospital", "doctor", "clinic", "pharmacy", "medical"} :
        Includes(toLowerCase(searchQuery), word)

\* a value inside a template literal or passed where a string is expected
StringOf(v) ==
    CASE v.k \in {"str", "num"} -> v.s
      [] v.k = "undef" -> "undefined"
      [] v.k = "null" -> "null"
      [] v.k = "bool" -> (IF v.n = 1 THEN "true" ELSE "false")
      [] OTHER -> "[object Object]"

\* line 640: lat && long && locationName
HasLocation == Truthy(lat) /\ Truthy(long) /\ locationName # ""

\* line 650
EnhancedQuery(searchQuery) ==
    searchQuery \o " " \o locationName \o " (" \o StringOf(lat) \o "," \o StringOf(long) \o ")"

\* what this.tavily.search does: it raises, it answers without results, it answers
TavilyOutcomes == {"raises", "empty", "results"}

\* variant: searchWeb without its try/catch
searchWebPropagating(outcome) ==
    [threw |-> outcome = "raises",
     value |-> IF outcome = "results" THEN "1. Clinic - https://example.org\nOpen daily."
               ELSE "No relevant information found."]

\* lines 253-268: threw = TRUE would be an exception leaving searchWeb
searchWeb(outcome) ==
    [threw |-> FALSE,
     value |-> CASE outcome = "raises" -> "Error fetching search results."
                 [] outcome = "empty" -> "No relevant information found."
                 [] OTHER -> "1. Clinic - https://example.org\nOpen daily."]

\* what searchWeb can return (it catches the provider's failure)
SearchOutcomes == {searchWeb(outcome).value : outcome \in TavilyOutcomes}

\* what this.twilioClient.messages.create does
TwilioOutcomes == {"sent", "raises"}

\* variant: sendEmergencyAlert without its try/catch
sendEmergencyAlertPropagating(outcome) ==
    [threw |-> outcome = "raises", value |-> TRUE]

\* lines 270-286: the returned boolean; threw = TRUE would be an exception leaving it
sendEmergencyAlert(outcome) ==
    [threw |-> FALSE, value |-> outcome = "sent"]

ToolResult(toolCall, content) ==
    [tool_call_id |-> toolCall.id, role |-> "tool", name |-> toolCall.name, content |-> content]


\* variant: the alert as the else branch of the tool_search test
IsAlertToolOrUnknown(functionName) == functionName # "tool_search"

\* line 662: functionName === "tool_alert"
IsAlertTool(functionName) == functionName = "tool_alert"

\* a call of JSON.parse on the arguments of the call at position index of a round
ParseRecord(round, index, arguments) == [round |-> round, index |-> index, arguments |-> arguments]

\* an exception inside the for-of loop of line 632
RaiseInDispatch(site) ==
    /\ raised' = site
    /\ pc' = CatchEntry
    /\ UNCHANGED <<toolResults, callIdx, toolLog>>

\* variant: the loop does not move on to the next call
SameCall(i) == i

\* line 632: for (const toolCall of toolCalls) takes the next element
NextCall(i) == i + 1

\* lines 632-671: one iteration of the for-of loop over toolCalls
DispatchToolCall ==
    /\ pc = "dispatch"
    /\ callIdx <= Len(toolCalls)
    /\ \E parsed \in {JSONParse(toolCalls[callIdx].arguments)} :
       LET toolCall == toolCalls[callIdx]
           functionArgs == parsed.val
           query == GetProp(functionArgs, "query")
       IN  IF toolCall.hole THEN RaiseInDispatch("toolCall.function")
           ELSE IF ~parsed.ok THEN RaiseInDispatch("JSON.parse")
           ELSE IF toolCall.name = "tool_search"
           THEN IF PropThrows(functionArgs) THEN RaiseInDispatch("functionArgs.query")
                ELSE IF HasLocation /\ query.k # "str" THEN RaiseInDispatch("toLowerCase")
                ELSE LET searchQuery ==
                             IF HasLocation /\ isLocationQuery(query.s)
                             THEN EnhancedQuery(query.s)
                             ELSE StringOf(query)
                     IN  \E outcome \in TavilyOutcomes : \E search \in {searchWeb(outcome)} :
                            IF search.threw THEN RaiseInDispatch("searchWeb")
                            ELSE /\ toolLog' = Append(toolLog,
                                        Invocation("searchWeb", searchQuery, outcome # "raises"))
                                 /\ toolResults' = Append(toolResults,
                                        ToolResult(toolCall, search.value))
                                 /\ callIdx' = NextCall(callIdx)
                                 /\ UNCHANGED <<pc, raised>>
           ELSE IF IsAlertTool(toolCall.name)
           THEN \E outcome \in TwilioOutcomes : \E alert \in {sendEmergencyAlert(outcome)} :
                   IF alert.threw THEN RaiseInDispatch("sendEmergencyAlert")
                   ELSE /\ toolLog' = Append(toolLog,
                               Invocation("sendEmergencyAlert", StringOf(message), alert.value))
                        /\ toolResults' = Append(toolResults,
                               ToolResult(toolCall, "Emergency alert sent successfully."))
                        /\ callIdx' = NextCall(callIdx)
                        /\ UNCHANGED <<pc, raised>>
           ELSE /\ callIdx' = NextCall(callIdx)
                /\ UNCHANGED <<pc, raised, toolLog, toolResults>>
    /\ parseLog' = IF toolCalls[callIdx].hole THEN parseLog
                   ELSE Append(parseLog, ParseRecord(rounds, callIdx, toolCalls[callIdx].arguments))
    /\ UNCHANGED <<roundStart, now, channel, turnVars, prepVars, conversationMessages, accumulatedText,
                   lastUpdate, currentContent, roundContent, toolCalls, rounds, chunks,
                   transport, lastInteractionTs, channelMessage>>

\* the tool-call records as sent back to the provider
ToolCallRecords(calls) ==
    [i \in 1..Len(calls) |-> calls[i]]

\* lines 673-682: the assistant turn with the tool calls, then the tool results; the
\* round's toolCalls and toolResults go out of scope with the loop body
EndToolRound ==
    /\ pc = "dispatch"
    /\ callIdx > Len(toolCalls)
    /\ conversationMessages' =
           Append(conversationMessages,
                  [role |-> "assistant", content |-> currentContent,
                   tool_calls |-> ToolCallRecords(toolCalls), tool_call_id |-> ""])
           \o [i \in 1..Len(toolResults) |->
                 [role |-> "tool", content |-> toolResults[i].content,
                  tool_calls |-> <<>>, tool_call_id |-> toolResults[i].tool_call_id]]
    /\ toolCalls' = <<>>
    /\ toolResults' = <<>>
    /\ callIdx' = 1
    /\ pc' = "create"
    /\ UNCHANGED <<parseLog, roundStart, now, channel, turnVars, prepVars, accumulatedText, lastUpdate,
                   currentContent, roundContent, rounds, chunks, transport, toolLog, raised,
                   lastInteractionTs, channelMessage>>

(***************************************************************************)
(* Final publish and the catch block, rag.ts 684-706                       *)
(***************************************************************************)
\* lines 684-688
FinalUpdate ==
    /\ pc = "finalUpdate"
    /\ \E ok \in BOOLEAN :
          IF ok
          THEN /\ transport' = Append(transport, Transport("final", Trim(accumulatedText)))
               /\ channel' = [channel EXCEPT ![channelMessage].text = Trim(accumulatedText)]
               /\ pc' = "sendClear"
               /\ UNCHANGED raised
          ELSE /\ raised' = "finalUpdate"
               /\ pc' = CatchEntry
               /\ UNCHANGED <<transport, channel>>
    /\ UNCHANGED <<parseLog, roundStart, now, turnVars, prepVars, loopVars, toolLog, lastInteractionTs, channelMessage>>

\* lines 690-694
SendClear ==
    /\ pc = "sendClear"
    /\ \E ok \in BOOLEAN :
          IF ok
          THEN /\ transport' = Append(transport, Transport("ai_indicator.clear", ""))
               /\ pc' = "done"
               /\ UNCHANGED raised
          ELSE /\ raised' = "sendClear"
               /\ pc' = CatchEntry
               /\ UNCHANGED transport
    /\ UNCHANGED <<parseLog, roundStart, now, channel, turnVars, prepVars, loopVars, toolLog, lastInteractionTs,
                   channelMessage>>

\* lines 697-702: a raise inside the catch block rejects handleMessage
SendErrorEvent ==
    /\ pc = "catchEvent"
    /\ \E ok \in BOOLEAN :
          IF ok
          THEN /\ transport' = Append(transport, Transport("ai_indicator.update", "AI_STATE_ERROR"))
               /\ pc' = "catchUpdate"
          ELSE /\ pc' = "rejected"
               /\ UNCHANGED transport
    /\ UNCHANGED <<parseLog, roundStart, now, channel, turnVars, prepVars, loopVars, toolLog, raised,
                   lastInteractionTs, channelMessage>>

\* lines 703-705
FallbackUpdate ==
    /\ pc = "catchUpdate"
    /\ \E ok \in BOOLEAN :
          IF ok
          THEN /\ transport' = Append(transport, Transport("fallback", FallbackEnvelope))
               /\ channel' = [channel EXCEPT ![channelMessage].text = FallbackEnvelope]
               /\ pc' = "done"
          ELSE /\ pc' = "rejected"
               /\ UNCHANGED <<transport, channel>>
    /\ UNCHANGED <<parseLog, roundStart, now, turnVars, prepVars, loopVars, toolLog, raised, lastInteractionTs,
                   channelMessage>>

(***************************************************************************)
(* Specification of one agent handling one message.new event               *)
(***************************************************************************)
InitAgent ==
    /\ pc = "idle"
    /\ now = 0
    /\ channel \in PriorChannels
    /\ message = JSUndefined
    /\ lat = JSUndefined
    /\ long = JSUndefined
    /\ retrievedContext = ""
    /\ conversationHistory = <<>>
    /\ locationName = ""
    /\ conversationMessages = <<>>
    /\ accumulatedText = ""
    /\ lastUpdate = 0
    /\ currentContent = ""
    /\ roundContent = <<>>
    /\ toolCalls = <<>>
    /\ toolResults = <<>>
    /\ callIdx = 1
    /\ rounds = 0
    /\ chunks = 0
    /\ transport = <<>>
    /\ toolLog = <<>>
    /\ raised = ""
    /\ lastInteractionTs = 0
    /\ channelMessage = 0
    /\ parseLog = <<>>
    /\ roundStart = 0

InitHistoryIdle ==
    /\ histMessages = <<>>
    /\ histMaxTokens = 0
    /\ histResult = <<>>

InitDeltaIdle ==
    /\ deltaWhole = <<>>
    /\ deltaRest = <<>>
    /\ deltaCalls = <<>>

InitCapIdle == capResult = <<>>

InitRetrieveIdle ==
    /\ embedOutcome = ""
    /\ storeResponse = <<>>
    /\ retrieveResult = <<>>

InitExtractIdle ==
    /\ streamed = <<>>
    /\ extractResult = <<>>

InitSessionIdle ==
    /\ turns = <<>>
    /\ publishes = <<>>
    /\ stops = 0
    /\ disposePc = "idle"
    /\ unheard = 0
    /\ newChat = <<>>

Init ==
    /\ InitAgent
    /\ InitSessionIdle
    /\ InitHistoryIdle
    /\ InitDeltaIdle
    /\ InitCapIdle
    /\ InitRetrieveIdle
    /\ InitExtractIdle

\* the variables of the pure-function specifications stay as they are
Idle == UNCHANGED <<histVars, deltaVars, capVars, retrVars, extrVars, sessVars>>

Next ==
    \/ \E e \in InboundEvents : HandleMessage(e) /\ Idle
    \/ Retrieve /\ Idle
    \/ GetHistory /\ Idle
    \/ Geocode /\ Idle
    \/ SendPlaceholder /\ Idle
    \/ SendThinking /\ Idle
    \/ CreateCompletion /\ Idle
    \/ \E content \in ContentDeltas, t \in ClockReads : StreamContent(content, t) /\ Idle
    \/ PartialUpdate /\ Idle
    \/ \E tc \in ToolDeltas : StreamToolCalls(tc) /\ Idle
    \/ StreamError /\ Idle
    \/ StreamEnd /\ Idle
    \/ DispatchToolCall /\ Idle
    \/ EndToolRound /\ Idle
    \/ FinalUpdate /\ Idle
    \/ SendClear /\ Idle
    \/ SendErrorEvent /\ Idle
    \/ FallbackUpdate /\ Idle

Spec == Init /\ [][Next]_vars

(***************************************************************************)
(* The turn under the assumptions of termination: every awaited call       *)
(* returns (weak fairness of the next step) and the provider's round       *)
(* number MaxRounds, at the latest, carries no tool call                   *)
(***************************************************************************)
ToolFreeRound == rounds = MaxRounds

NextLive ==
    \/ \E e \in InboundEvents : HandleMessage(e) /\ Idle
    \/ Retrieve /\ Idle
    \/ GetHistory /\ Idle
    \/ Geocode /\ Idle
    \/ SendPlaceholder /\ Idle
    \/ SendThinking /\ Idle
    \/ CreateCompletion /\ Idle
    \/ \E content \in ContentDeltas, t \in ClockReads : StreamContent(content, t) /\ Idle
    \/ PartialUpdate /\ Idle
    \/ \E tc \in ToolDeltas : ~ToolFreeRound /\ StreamToolCalls(tc) /\ Idle
    \/ StreamError /\ Idle
    \/ StreamEnd /\ Idle
    \/ DispatchToolCall /\ Idle
    \/ EndToolRound /\ Idle
    \/ FinalUpdate /\ Idle
    \/ SendClear /\ Idle
    \/ SendErrorEvent /\ Idle
    \/ FallbackUpdate /\ Idle

SpecLive == Init /\ [][NextLive]_vars /\ WF_vars(NextLive)

(***************************************************************************)
(* The history assembler on its own: every history of at most MaxHistory   *)
(* catalogue messages, every allowance of Allowances                       *)
(***************************************************************************)
HistoryCatalogue ==
    { Msg("hi", FALSE),
      Msg("{\"text\":\"take rest\"}", TRUE),
      Msg("12345", FALSE),
      Msg("", TRUE),
      Msg("  ", FALSE),
      Msg("{\"text\":7}", FALSE) }

Allowances == {2, 4, 8}

Histories == UNION {[1..n -> HistoryCatalogue] : n \in 0..MaxHistory}

InitHistory ==
    /\ InitAgent
    /\ InitSessionIdle
    /\ InitDeltaIdle
    /\ InitCapIdle
    /\ InitRetrieveIdle
    /\ InitExtractIdle
    /\ histMessages \in Histories
    /\ histMaxTokens \in Allowances
    /\ histResult = [done |-> FALSE, queryFails |-> FALSE, history |-> <<>>]

AssembleHistory(queryFails) ==
    /\ ~histResult.done
    /\ histResult' = [done |-> TRUE, queryFails |-> queryFails,
                      history |-> getConversationHistory(histMessages, histMaxTokens, queryFails)]
    /\ UNCHANGED <<histMessages, histMaxTokens, agentVars, deltaVars, capVars, retrVars, extrVars, sessVars>>

NextHistory == \E queryFails \in BOOLEAN : AssembleHistory(queryFails)

SpecHistory == InitHistory /\ [][NextHistory]_vars

(***************************************************************************)
(* Tool-call delta merging on its own: two calls, indices 0 and 1, cut     *)
(* into fragments of any size up to MaxFragment and interleaved freely     *)
(***************************************************************************)
WholeCalls ==
    { [id |-> "c_a", name |-> "tool_alert", arguments |-> "{\"a\":1}"],
      [id |-> "c_s", name |-> "tool_search", arguments |-> "{}"] }

InitDelta ==
    /\ InitAgent
    /\ InitSessionIdle
    /\ InitHistoryIdle
    /\ InitCapIdle
    /\ InitRetrieveIdle
    /\ InitExtractIdle
    /\ deltaWhole \in [1..2 -> WholeCalls]
    /\ deltaRest = [i \in 1..2 |-> [name |-> deltaWhole[i].name, arguments |-> deltaWhole[i].arguments]]
    /\ deltaCalls = <<>>

FragmentSizes(str) == {k \in 0..Len(str) : k <= MaxFragment \/ k = Len(str)}

\* the next delta carries index, the first n characters left of the name and the
\* first m characters left of the arguments; withId: the delta carries the call's id
\* (the provider sends the id with the first delta of an index, or not at all)
DeliverDelta(index, n, m, withId) ==
    LET rest == deltaRest[index + 1]
        tc == ToolDelta(index, IF withId THEN deltaWhole[index + 1].id ELSE "",
                        SubSeq(rest.name, 1, n), SubSeq(rest.arguments, 1, m))
    IN  /\ n + m > 0
        /\ deltaCalls' = MergeToolCallDelta(deltaCalls, tc, now)
        /\ deltaRest' = [deltaRest EXCEPT ![index + 1] =
                            [name |-> SubSeq(rest.name, n + 1, Len(rest.name)),
                             arguments |-> SubSeq(rest.arguments, m + 1, Len(rest.arguments))]]
        /\ UNCHANGED <<deltaWhole, agentVars, histVars, capVars, retrVars, extrVars, sessVars>>

NextDelta ==
    \E index \in 0..1 :
        \E n \in FragmentSizes(deltaRest[index + 1].name),
           m \in FragmentSizes(deltaRest[index + 1].arguments),
           withId \in IF Len(deltaCalls) > index /\ ~deltaCalls[index + 1].hole
                      THEN {FALSE} ELSE BOOLEAN :
            DeliverDelta(index, n, m, withId)

SpecDelta == InitDelta /\ [][NextDelta]_vars

(***************************************************************************)
(* What a turn did, read from the transport and the adapter logs           *)
(***************************************************************************)
Last(seq) == seq[Len(seq)]

OpsAt(ops) == {i \in DOMAIN transport : transport[i].op \in ops}

FinalPublishes == Cardinality(OpsAt({"final", "fallback"}))
PartialPublishes == Cardinality(OpsAt({"partial"}))

ErrorEvent == Transport("ai_indicator.update", "AI_STATE_ERROR")

AlertsSent == Cardinality({i \in DOMAIN toolLog : toolLog[i].tool = "sendEmergencyAlert"})

\* the finished tool calls of the rounds already fed back to the provider
RecordedCalls ==
    {<<i, k>> \in (DOMAIN conversationMessages) \X (1..MaxChunks) :
        k \in DOMAIN conversationMessages[i].tool_calls}

\* finished calls named tool_alert whose dispatch iteration has run
DispatchedAlertCalls ==
    Cardinality({ik \in RecordedCalls : conversationMessages[ik[1]].tool_calls[ik[2]].name = "tool_alert"})
    + Cardinality({k \in 1..(callIdx - 1) : k <= Len(toolCalls) /\ toolCalls[k].name = "tool_alert"})

RECURSIVE Concat(_)
Concat(seq) == IF seq = <<>> THEN "" ELSE Head(seq) \o Concat(Tail(seq))

(***************************************************************************)
(* Claims                                                                  *)
(***************************************************************************)

\* C1: every turn has exactly one final publish (the final answer or the fallback
\* envelope), on the success path and on every error path. Stated here for the turns
\* handleMessage runs to its end; the code publishes twice when the clear event raises.
C1_ExactlyOneFinalPublish == pc = "done" => FinalPublishes = 1

\* C2: ai_indicator.clear is emitted only after the turn's final-answer publish, and
\* the fallback publish only after the AI_STATE_ERROR event.
C2_StatusOrder ==
    \A i \in DOMAIN transport :
        /\ transport[i].op = "ai_indicator.clear" =>
              \E j \in 1..(i - 1) : transport[j].op = "final"
        /\ transport[i].op = "fallback" =>
              \E j \in 1..(i - 1) : transport[j] = ErrorEvent

C2_Witness == pc = "done" /\ Last(transport).op = "ai_indicator.clear" /\ PartialPublishes > 0

\* C3: once the provider request or the stream read has raised, the turn opens no
\* further request, dispatches no further tool and records nothing more for the
\* provider; the next transport call is the AI_STATE_ERROR event and the one after it
\* sets the message text to the fallback envelope; there is no retry.
ProviderRaised == raised \in {"create", "stream"}

C3_Aborted ==
    ProviderRaised =>
        /\ pc \in {"catchEvent", "catchUpdate", "done", "rejected"}
        /\ pc \in {"catchUpdate", "done"} => ErrorEvent \in {transport[i] : i \in DOMAIN transport}
        /\ pc = "catchUpdate" => Last(transport) = ErrorEvent
        /\ pc = "done" =>
              /\ Last(transport) = Transport("fallback", FallbackEnvelope)
              /\ transport[Len(transport) - 1] = ErrorEvent
              /\ channel[channelMessage].text = FallbackEnvelope

C3_ProviderErrorAbortsLoop ==
    /\ []C3_Aborted
    /\ [][ProviderRaised =>
            /\ rounds' = rounds
            /\ toolLog' = toolLog
            /\ conversationMessages' = conversationMessages]_vars

C3_Witness == raised = "stream" /\ pc = "done" /\ rounds = 2 /\ Len(toolLog) > 1

\* C4: a finished tool call whose name is neither tool_search nor tool_alert gets a
\* tool turn with its id in the message list. The code appends none.
C4_UnknownToolGetsResult ==
    \A ik \in RecordedCalls :
        LET call == conversationMessages[ik[1]].tool_calls[ik[2]] IN
        call.name \notin {"tool_search", "tool_alert"} =>
            \E j \in DOMAIN conversationMessages :
                /\ j > ik[1]
                /\ conversationMessages[j].role = "tool"
                /\ conversationMessages[j].tool_call_id = call.id

\* C5: a finished tool call with unparsable arguments does not put the turn on the
\* fatal path: with no other call raising, no AI_STATE_ERROR event and no fallback.
\* The code lets the SyntaxError of JSON.parse reach the catch block.
C5_UnparsableArgumentsRecovered ==
    ( /\ pc # "stream"
      /\ raised \in {"", "JSON.parse"}
      /\ \E k \in DOMAIN toolCalls : ~toolCalls[k].hole /\ ~JSONParse(toolCalls[k].arguments).ok )
    => /\ pc \notin {"catchEvent", "catchUpdate", "rejected"}
       /\ OpsAt({"fallback"}) = {}
       /\ ErrorEvent \notin {transport[i] : i \in DOMAIN transport}

\* C6: a turn in which the provider requests tool_alert sends exactly one alert and
\* ends with the final answer. Stated for the turns that end without any exception;
\* the code sends one alert per finished tool_alert call.
C6_AlertExactlyOnce ==
    ( /\ pc = "done"
      /\ raised = ""
      /\ DispatchedAlertCalls > 0 )
    => AlertsSent = 1 /\ OpsAt({"final"}) # {}

\* C7: sendEmergencyAlert is invoked only by the dispatch of a finished tool call
\* named exactly tool_alert: never more alerts than such calls, whatever the user wrote.
C7_AlertOnlyOnRequest ==
    /\ [](AlertsSent <= DispatchedAlertCalls)
    /\ [][(toolLog' # toolLog /\ Last(toolLog').tool = "sendEmergencyAlert") =>
            /\ pc = "dispatch"
            /\ ~toolCalls[callIdx].hole
            /\ toolCalls[callIdx].name = "tool_alert"
            /\ Last(toolLog').arg = StringOf(message)]_vars

C7_Witness == pc = "done" /\ raised = "" /\ AlertsSent = 1 /\ Len(toolLog) = 3

\* C9: the text of the final-answer publish is the trimmed concatenation of the text
\* deltas of the round that ended the loop, however many partial publishes were made.
C9_FinalIndependentOfPartials ==
    \A i \in DOMAIN transport :
        transport[i].op = "final" => transport[i].arg = Trim(Concat(roundContent))

C9_Witness ==
    /\ PartialPublishes = 2
    /\ OpsAt({"final"}) # {}
    /\ Len(roundContent) = 3
    /\ Last(transport).arg # ""

\* C8: tool-call deltas cut into fragments and interleaved across indices reassemble:
\* what has been accumulated for an index followed by what is still to come is the
\* call's name and arguments, and when everything has arrived the name, the argument
\* string and the parsed arguments are those of a delivery in one piece per index.
WholeDelivery ==
    MergeToolCallDelta(
        MergeToolCallDelta(<<>>, ToolDelta(0, deltaWhole[1].id, deltaWhole[1].name,
                                           deltaWhole[1].arguments), now),
        ToolDelta(1, deltaWhole[2].id, deltaWhole[2].name, deltaWhole[2].arguments), now)

AllDelivered == \A i \in DOMAIN deltaRest : deltaRest[i] = [name |-> "", arguments |-> ""]

C8_DeltaReassembly ==
    /\ \A i \in DOMAIN deltaCalls :
          ~deltaCalls[i].hole =>
              /\ deltaCalls[i].name \o deltaRest[i].name = deltaWhole[i].name
              /\ deltaCalls[i].arguments \o deltaRest[i].arguments = deltaWhole[i].arguments
    /\ (deltaWhole # <<>> /\ AllDelivered) =>
          /\ Len(deltaCalls) = 2
          /\ \A i \in 1..2 :
                /\ ~deltaCalls[i].hole
                /\ deltaCalls[i].name = WholeDelivery[i].name
                /\ deltaCalls[i].arguments = WholeDelivery[i].arguments
                /\ JSONParse(deltaCalls[i].arguments) = JSONParse(deltaWhole[i].arguments)
                /\ JSONParse(deltaCalls[i].arguments).ok

\* index 1 has started before index 0 is complete, both cut inside name and arguments
C8_Witness ==
    /\ Len(deltaCalls) = 2
    /\ \A i \in 1..2 :
          /\ ~deltaCalls[i].hole
          /\ deltaCalls[i].name # "" /\ deltaRest[i].name # ""
          /\ deltaCalls[i].arguments # "" /\ deltaRest[i].arguments # ""
    /\ deltaWhole[1] # deltaWhole[2]

\* C10: the kept history and its token total
Kept == histResult.history

RECURSIVE TokensOf(_)
TokensOf(history) ==
    IF history = <<>> THEN 0
    ELSE estimateTokens(Head(history).content) + TokensOf(Tail(history))

\* the turns of the channel that are not skipped as empty, oldest first
RECURSIVE EligibleTurns(_)
EligibleTurns(messages) ==
    IF messages = <<>> THEN <<>>
    ELSE CHOOSE r \in {
         (IF Head(messages).text # "" /\ d.k = "str" /\ Trim(d.s) # ""
          THEN <<[role |-> IF Head(messages).ai_generated THEN "assistant" ELSE "user",
                  content |-> d.s]>>
          ELSE <<>>) \o EligibleTurns(Tail(messages))
         : d \in {DecodeHistoryText(Head(messages).text)} } : TRUE

AllTextsAreStrings ==
    \A i \in DOMAIN histMessages :
        histMessages[i].text = "" \/ DecodeHistoryText(histMessages[i].text).k = "str"

Min(a, b) == IF a < b THEN a ELSE b

MAX_CONTEXT_LENGTH == 6000

\* str repeated n times
RECURSIVE Repeat(_, _)
Repeat(str, n) ==
    IF n = 0 THEN ""
    ELSE CHOOSE r \in {(IF n % 2 = 1 THEN str ELSE "") \o half \o half
                       : half \in {Repeat(str, n \div 2)}} : TRUE

Reverse(seq) == [i \in 1..Len(seq) |-> seq[Len(seq) - i + 1]]

\* variant: the loop runs over the response as the transport returned it
AsReceived(responseMessages) == responseMessages

\* const messages = [...response.messages].reverse()
NewestFirst(responseMessages) == Reverse(responseMessages)

\* for (const msg of messages), from position i on; threw: messageText.trim raised
RECURSIVE CappedLoop(_, _, _, _)
CappedLoop(messages, i, history, totalLength) ==
    IF i > Len(messages) THEN [threw |-> FALSE, history |-> history]
    ELSE CHOOSE r \in {
         IF messages[i].text = "" THEN CappedLoop(messages, i + 1, history, totalLength)
         ELSE IF ~Truthy(messageText) THEN CappedLoop(messages, i + 1, history, totalLength)
         ELSE IF messageText.k # "str" THEN [threw |-> TRUE, history |-> history]
         ELSE IF Trim(messageText.s) = "" THEN CappedLoop(messages, i + 1, history, totalLength)
         ELSE IF totalLength + Len(messageText.s) > MAX_CONTEXT_LENGTH
              THEN [threw |-> FALSE, history |-> history]
              ELSE CHOOSE r2 \in {CappedLoop(messages, i + 1, longer, total) :
                       longer \in {Append(history,
                                          [role |-> IF messages[i].ai_generated
                                                    THEN "assistant" ELSE "user",
                                           content |-> messageText.s])},
                       total \in {totalLength + Len(messageText.s)}} : TRUE
         : messageText \in {IF messages[i].text = "" THEN JSUndefined
                            ELSE DecodeHistoryText(messages[i].text)} } : TRUE

\* getConversationHistory of GroqAiAgent.ts; queryFails: this.channel.query raised
GroqAiAgent_getConversationHistory(responseMessages, queryFails) ==
    IF queryFails \/ Len(responseMessages) = 0 THEN <<>>
    ELSE LET r == CappedLoop(NewestFirst(responseMessages), 1, <<>>, 0) IN
         IF r.threw THEN <<>> ELSE r.history

LongTextLength == 3000

CappedCatalogue ==
    { Msg("hi", FALSE),
      Msg("{\"text\":\"take rest\"}", TRUE),
      Msg(Repeat("x", LongTextLength), FALSE),
      Msg(Repeat("y", LongTextLength - 1), TRUE),
      Msg("", TRUE),
      Msg("{\"text\":7}", FALSE) }

InitCapped ==
    /\ InitAgent
    /\ InitSessionIdle
    /\ InitDeltaIdle
    /\ InitRetrieveIdle
    /\ InitExtractIdle
    /\ histMessages \in UNION {[1..n -> CappedCatalogue] : n \in 0..MaxHistory}
    /\ histMaxTokens = 0
    /\ histResult = <<>>
    /\ capResult = [done |-> FALSE, queryFails |-> FALSE, history |-> <<>>]

AssembleCappedHistory(queryFails) ==
    /\ ~capResult.done
    /\ capResult' = [done |-> TRUE, queryFails |-> queryFails,
                     history |-> GroqAiAgent_getConversationHistory(histMessages, queryFails)]
    /\ UNCHANGED <<histVars, agentVars, deltaVars, retrVars, extrVars, sessVars>>

NextCapped == \E queryFails \in BOOLEAN : AssembleCappedHistory(queryFails)

SpecCapped == InitCapped /\ [][NextCapped]_vars

RECURSIVE CharsOf(_)
CharsOf(history) ==
    IF history = <<>> THEN 0 ELSE Len(Head(history).content) + CharsOf(Tail(history))

HistoryQueryFailed == Invocation("channel.query", "", FALSE) \in {toolLog[i] : i \in DOMAIN toolLog}

C12_Request ==
    HistoryQueryFailed =>
        /\ conversationHistory = <<>>
        /\ (pc = "create" /\ rounds = 0) =>
              conversationMessages = <<Turn("system", Prompt), Turn("user", message.s)>>
        /\ conversationMessages # <<>> =>
              /\ SubSeq(conversationMessages, 1, 2) =
                    <<Turn("system", Prompt), Turn("user", message.s)>>
              /\ \A i \in 3..Len(conversationMessages) :
                    \/ conversationMessages[i].role = "tool"
                    \/ /\ conversationMessages[i].role = "assistant"
                       /\ conversationMessages[i].tool_calls # <<>>

C12_HistoryFailureIsEmptyHistory ==
    /\ []C12_Request
    /\ [][pc = "history" => pc' \in {"geocode", "sendMessage"}]_vars

C12_Witness ==
    /\ HistoryQueryFailed
    /\ pc = "done"
    /\ raised = ""
    /\ OpsAt({"final"}) # {}
    /\ Last(transport).op = "ai_indicator.clear"

(***************************************************************************)
(* generateEmbedding and retrieveFromPinecone, rag.ts 67-154               *)
(***************************************************************************)
MAX_PINECONE_RESULTS == 5
PINECONE_TOKEN_LIMIT == 3000
ScoreThreshold == 70    \* 0.7, scores in hundredths
MaxMatches == 3         \* matches in a store response (at most topK)

\* a match of the store: hasScore = FALSE is a match without score; text, content and
\* source are metadata.text, metadata.content, metadata.source, "" when absent
Match(hasScore, score, text, content, source) ==
    [hasScore |-> hasScore, score |-> score, text |-> text, content |-> content,
     source |-> source]

\* variant: the embedding service's exception is not caught
generateEmbeddingPropagating(outcome) ==
    CASE outcome = "ok" -> [raised |-> FALSE, vector |-> "embedding"]
      [] outcome = "http_error" -> [raised |-> FALSE, vector |-> "zero"]
      [] OTHER -> [raised |-> TRUE, vector |-> ""]

\* lines 67-103: the vector of the service, new Array(384).fill(0) when the response
\* is not ok or fetch / response.json raises
generateEmbedding(outcome) ==
    IF outcome = "ok"
    THEN [raised |-> FALSE, vector |-> "embedding"]
    ELSE [raised |-> FALSE, vector |-> "zero"]

\* line 129: match.score && match.score < 0.7
LowRelevance(match) == match.hasScore /\ match.score # 0 /\ match.score < ScoreThreshold

\* lines 132-137
ContentOf(match) == IF match.text # "" THEN match.text ELSE match.content
SourceOf(match) == IF match.source # "" THEN match.source ELSE "Medical Database"
Snippet(match) == "[Source: " \o SourceOf(match) \o "]\n" \o ContentOf(match) \o "\n"

\* lines 128-146, from match i on; included: the positions of the matches appended
RECURSIVE RetrieveLoop(_, _, _, _, _)
RetrieveLoop(matches, i, contextText, currentTokens, included) ==
    IF i > Len(matches)
    THEN [contextText |-> contextText, currentTokens |-> currentTokens, included |-> included]
    ELSE IF LowRelevance(matches[i]) \/ ContentOf(matches[i]) = ""
    THEN RetrieveLoop(matches, i + 1, contextText, currentTokens, included)
    ELSE CHOOSE r \in {
         IF currentTokens + estimateTokens(snippet) > PINECONE_TOKEN_LIMIT
         THEN [contextText |-> contextText, currentTokens |-> currentTokens,
               included |-> included]
         ELSE CHOOSE r2 \in {RetrieveLoop(matches, i + 1, text, tokens, included \cup {i}) :
                  text \in {contextText \o snippet \o "\n"},
                  tokens \in {currentTokens + estimateTokens(snippet)}} : TRUE
         : snippet \in {Snippet(matches[i])} } : TRUE

\* lines 106-154. response.raises: index.query raised; response.hasMatches = FALSE: the
\* response has no matches field
retrieveFromPinecone(outcome, response) ==
    LET queryEmbedding == generateEmbedding(outcome)
        none == [raised |-> FALSE, vector |-> queryEmbedding.vector,
                 queried |-> ~queryEmbedding.raised, text |-> "", currentTokens |-> 0,
                 included |-> {}]
    IN  IF queryEmbedding.raised \/ response.raises THEN none
        ELSE IF ~response.hasMatches \/ Len(response.matches) = 0 THEN none
        ELSE LET r == RetrieveLoop(response.matches, 1, "", 0, {}) IN
             [none EXCEPT !.text = Trim(r.contextText),
                          !.currentTokens = r.currentTokens,
                          !.included = r.included]

\* matches of the store: relevant, below the threshold, score 0, no score, no content,
\* a snippet of 4000 characters (1000 tokens), a snippet over the limit on its own
MatchCatalogue ==
    { Match(TRUE, 90, "Rest.", "", "WHO"),
      Match(TRUE, 50, "Low.", "", ""),
      Match(TRUE, 0, "Zero.", "", ""),
      Match(FALSE, 0, "", "Unscored. ", "CDC"),
      Match(TRUE, 70, "", "", "WHO"),
      Match(TRUE, 95, Repeat("k", 3972), "", ""),
      Match(TRUE, 99, Repeat("z", 11973), "", "") }

StoreResponses ==
    { [raises |-> TRUE, hasMatches |-> FALSE, matches |-> <<>>],
      [raises |-> FALSE, hasMatches |-> FALSE, matches |-> <<>>] }
    \cup { [raises |-> FALSE, hasMatches |-> TRUE, matches |-> ms] :
             ms \in UNION {[1..n -> MatchCatalogue] :
                             n \in 0..Min(MaxMatches, MAX_PINECONE_RESULTS)} }

InitRetrieve ==
    /\ InitAgent
    /\ InitSessionIdle
    /\ InitHistoryIdle
    /\ InitDeltaIdle
    /\ InitCapIdle
    /\ InitExtractIdle
    /\ embedOutcome \in {"ok", "http_error", "raises"}
    /\ storeResponse \in StoreResponses
    /\ retrieveResult = [done |-> FALSE]

RetrieveFromPinecone ==
    /\ ~retrieveResult.done
    /\ retrieveResult' = [done |-> TRUE] @@ retrieveFromPinecone(embedOutcome, storeResponse)
    /\ UNCHANGED <<embedOutcome, storeResponse, agentVars, histVars, deltaVars, capVars, extrVars, sessVars>>

NextRetrieve == RetrieveFromPinecone

SpecRetrieve == InitRetrieve /\ [][NextRetrieve]_vars

\* C13: no chunk of the returned knowledge text has a score below 0.7. The code keeps
\* a chunk whose score is 0 (match.score && ... is false for 0).
C13_NoChunkBelowThreshold ==
    retrieveResult.done =>
        \A i \in retrieveResult.included :
            storeResponse.matches[i].hasScore =>
                storeResponse.matches[i].score >= ScoreThreshold

\* C14: the token estimate of the returned knowledge string is at most
\* PINECONE_TOKEN_LIMIT. The code budgets the snippets and not the separators.
C14_KnowledgeWithinLimit ==
    retrieveResult.done => estimateTokens(retrieveResult.text) <= PINECONE_TOKEN_LIMIT

\* C15: retrieveFromPinecone never raises; when the embedding service fails the query
\* is still issued, with the zero vector; when the store query raises the result is "".
C15_RetrievalNeverRaises ==
    retrieveResult.done =>
        /\ ~retrieveResult.raised
        /\ retrieveResult.queried
        /\ embedOutcome # "ok" => retrieveResult.vector = "zero"
        /\ embedOutcome = "ok" => retrieveResult.vector = "embedding"
        /\ storeResponse.raises => retrieveResult.text = ""

\* the embedding service raised, the store answered, and knowledge came back
C15_Witness ==
    /\ retrieveResult.done
    /\ embedOutcome = "raises"
    /\ retrieveResult.vector = "zero"
    /\ retrieveResult.text # ""

\* C16: the history allowance is 28000 - 2000 - estimateTokens(knowledge) - 500 and is
\* never negative, for every retrieval result.
C16_AllowanceNeverNegative ==
    retrieveResult.done =>
        /\ availableForHistory(retrieveResult.text)
              = 28000 - 2000 - estimateTokens(retrieveResult.text) - 500
        /\ availableForHistory(retrieveResult.text) >= 0
        /\ retrieveResult.currentTokens <= PINECONE_TOKEN_LIMIT

\* the largest knowledge text: three snippets of 1000 tokens
C16_Witness ==
    /\ retrieveResult.done
    /\ retrieveResult.currentTokens = PINECONE_TOKEN_LIMIT
    /\ Cardinality(retrieveResult.included) = 3

\* C17: an inbound body that is not empty and not an envelope (not JSON, or JSON that
\* is not an object with a text field) starts a turn with the raw body as the text and
\* no location. The code drops a body that is valid JSON without a text field.
InboundAt == Len(CHOOSE c \in PriorChannels : TRUE) + 1

IsEnvelope(text) ==
    \E parsed \in {JSONParse(text)} :
        /\ parsed.ok
        /\ parsed.val.k = "obj"
        /\ GetProp(parsed.val, "text").k # "undef"

C17_NonEnvelopeIsRawText ==
    (pc # "idle" /\ Len(channel) >= InboundAt) =>
        LET inbound == channel[InboundAt] IN
        (~inbound.ai_generated /\ inbound.text # "" /\ ~IsEnvelope(inbound.text)) =>
            /\ pc # "ignored"
            /\ message = JSStr(inbound.text)
            /\ lat = JSUndefined
            /\ long = JSUndefined

\* C19: in a turn with a location, every query forwarded to the search adapter
\* contains the resolved place name and neither the latitude nor the longitude.
\* Stated for the turns whose place was resolved; the code appends "(lat,long)".
ResolverSucceeded == locationName \notin {"", "your location"}

SearchQueries == {toolLog[i].arg : i \in {j \in DOMAIN toolLog : toolLog[j].tool = "searchWeb"}}

C19_SearchQueryWithoutCoordinates ==
    (Truthy(lat) /\ Truthy(long) /\ ResolverSucceeded) =>
        \A forwarded \in SearchQueries :
            /\ Includes(forwarded, locationName)
            /\ ~Includes(forwarded, StringOf(lat))
            /\ ~Includes(forwarded, StringOf(long))

\* C20: the query of a dispatched tool_search call is forwarded unchanged unless the
\* resolver returned a real place name (not the "your location" default) and the query
\* is geographically scoped. The code also appends the coordinates after the default.
C20_CoordinatesOnlyAfterResolution ==
    ( /\ pc = "dispatch"
      /\ callIdx > 1
      /\ toolCalls[callIdx - 1].name = "tool_search" )
    => \E parsed \in {JSONParse(toolCalls[callIdx - 1].arguments)} :
          LET query == GetProp(parsed.val, "query") IN
          ~(ResolverSucceeded /\ query.k = "str" /\ isLocationQuery(query.s)) =>
              Last(toolLog) = Invocation("searchWeb", StringOf(query), Last(toolLog).ok)

(***************************************************************************)
(* extractTextFromStreamingJSON, client chat-message.tsx 43-81             *)
(***************************************************************************)
\* the capture group (?:[^"\\]|\\.)* followed by ": the position of the closing quote,
\* 0 when the group cannot be closed (end of input, or a backslash before a line end)
RECURSIVE ScanTextGroup(_, _)
ScanTextGroup(raw, i) ==
    IF i > Len(raw) THEN 0
    ELSE IF Ch(raw, i) = "\"" THEN i
    ELSE IF Ch(raw, i) = "\\"
         THEN IF i + 1 > Len(raw) \/ Ch(raw, i + 1) \in {"\n", "\r"} THEN 0
              ELSE ScanTextGroup(raw, i + 2)
    ELSE ScanTextGroup(raw, i + 1)

\* the capture group [^"]* followed by "
RECURSIVE ScanLangGroup(_, _)
ScanLangGroup(raw, i) ==
    IF i > Len(raw) THEN 0
    ELSE IF Ch(raw, i) = "\"" THEN i
    ELSE ScanLangGroup(raw, i + 1)

\* "key"\s*:\s*" matched at position p: the position after the opening quote, 0 if not
KeyPrefixAt(raw, key, p) ==
    LET quoted == "\"" \o key \o "\""
        last == p + Len(quoted) - 1
    IN  IF last > Len(raw) \/ SubSeq(raw, p, last) # quoted THEN 0
        ELSE LET colon == SkipWs(raw, last + 1) IN
             IF colon > Len(raw) \/ Ch(raw, colon) # ":" THEN 0
             ELSE LET open == SkipWs(raw, colon + 1) IN
                  IF open > Len(raw) \/ Ch(raw, open) # "\"" THEN 0
                  ELSE open + 1

\* rawText.match(/"text"\s*:\s*"((?:[^"\\]|\\.)*)"/): the leftmost match from p on
RECURSIVE MatchText(_, _)
MatchText(raw, p) ==
    IF p > Len(raw) THEN [found |-> FALSE, group |-> ""]
    ELSE CHOOSE r \in {
         IF start # 0 /\ ScanTextGroup(raw, start) # 0
         THEN [found |-> TRUE, group |-> SubSeq(raw, start, ScanTextGroup(raw, start) - 1)]
         ELSE MatchText(raw, p + 1)
         : start \in {KeyPrefixAt(raw, "text", p)} } : TRUE

\* rawText.match(/"lang"\s*:\s*"([^"]*)"/)
RECURSIVE MatchLang(_, _)
MatchLang(raw, p) ==
    IF p > Len(raw) THEN [found |-> FALSE, group |-> ""]
    ELSE CHOOSE r \in {
         IF start # 0 /\ ScanLangGroup(raw, start) # 0
         THEN [found |-> TRUE, group |-> SubSeq(raw, start, ScanLangGroup(raw, start) - 1)]
         ELSE MatchLang(raw, p + 1)
         : start \in {KeyPrefixAt(raw, "lang", p)} } : TRUE

\* str.replace(/<backslash><c>/g, by): every occurrence, left to right
RECURSIVE ReplaceEscape(_, _, _)
ReplaceEscape(str, c, by) ==
    IF Len(str) < 2 THEN str
    ELSE IF SubSeq(str, 1, 2) = "\\" \o c
         THEN by \o ReplaceEscape(SubSeq(str, 3, Len(str)), c, by)
         ELSE Head(str) \o ReplaceEscape(Tail(str), c, by)

\* lines 63-67: the four replacements, in the order of the code
ResolveEscapes(group) ==
    ReplaceEscape(ReplaceEscape(ReplaceEscape(ReplaceEscape(group, "n", "\n"),
                                              "t", "\t"), "\"", "\""), "\\", "\\")

\* variant: a fragment is never taken for the start of an envelope
StartsWithBraceNever(rawText) == FALSE

\* line 76: rawText.trim().startsWith("{")
StartsWithBrace(rawText) ==
    LET trimmed == Trim(rawText) IN Len(trimmed) > 0 /\ Head(trimmed) = "{"

\* text and lang are JavaScript values (parsed.text can be any JSON value)
Extracted(text, lang, isComplete) == [text |-> text, lang |-> lang, isComplete |-> isComplete]

extractTextFromStreamingJSON(rawText) ==
    IF rawText = "" THEN Extracted(JSStr(""), JSNull, FALSE)
    ELSE CHOOSE r \in {
         IF parsed.ok /\ ~PropThrows(parsed.val) /\ GetProp(parsed.val, "text").k # "undef"
         THEN Extracted(GetProp(parsed.val, "text"),
                        IF Truthy(GetProp(parsed.val, "lang"))
                        THEN GetProp(parsed.val, "lang") ELSE JSNull,
                        TRUE)
         ELSE CHOOSE r2 \in {
              IF textMatch.found
              THEN Extracted(JSStr(ResolveEscapes(textMatch.group)),
                             IF langMatch.found THEN JSStr(langMatch.group) ELSE JSNull,
                             FALSE)
              ELSE IF StartsWithBrace(rawText) THEN Extracted(JSStr(""), JSNull, FALSE)
              ELSE Extracted(JSStr(rawText), JSNull, TRUE)
              : textMatch \in {MatchText(rawText, 1)}, langMatch \in {MatchLang(rawText, 1)} } : TRUE
         : parsed \in {JSONParse(rawText)} } : TRUE

\* JSON.stringify of a string value, without the quotes
RECURSIVE EncodeJSONString(_)
EncodeJSONString(text) ==
    IF text = "" THEN ""
    ELSE (CASE Head(text) = "\"" -> "\\\""
            [] Head(text) = "\\" -> "\\\\"
            [] Head(text) = "\n" -> "\\n"
            [] Head(text) = "\t" -> "\\t"
            [] OTHER -> Head(text)) \o EncodeJSONString(Tail(text))

\* the envelope of an answer, in either key order, up to the opening quote of text
EnvelopeHead(textFirst) == IF textFirst THEN "{\"text\": \"" ELSE "{\"lang\": \"en-US\", \"text\": \""
EnvelopeTail(textFirst) == IF textFirst THEN "\", \"lang\": \"en-US\"}" ELSE "\"}"
Envelope(text, textFirst) ==
    EnvelopeHead(textFirst) \o EncodeJSONString(text) \o EnvelopeTail(textFirst)

AnswerTexts == {"Hi.", "a\"b", "x\ny", "c\\d", "\t\"text\":\"z\"", "C:\\new"}

Fragment == SubSeq(Envelope(streamed.text, streamed.textFirst), 1, streamed.cut)

InitExtract ==
    /\ InitAgent
    /\ InitSessionIdle
    /\ InitHistoryIdle
    /\ InitDeltaIdle
    /\ InitCapIdle
    /\ InitRetrieveIdle
    /\ \E text \in AnswerTexts, textFirst \in BOOLEAN :
          \E cut \in 0..Len(Envelope(text, textFirst)) :
              streamed = [text |-> text, textFirst |-> textFirst, cut |-> cut]
    /\ extractResult = [done |-> FALSE]

ExtractText ==
    /\ ~extractResult.done
    /\ extractResult' = [done |-> TRUE] @@ extractTextFromStreamingJSON(Fragment)
    /\ UNCHANGED <<streamed, agentVars, histVars, deltaVars, capVars, retrVars, sessVars>>

NextExtract == ExtractText

SpecExtract == InitExtract /\ [][NextExtract]_vars

IsPrefix(a, b) == Len(a) <= Len(b) /\ SubSeq(b, 1, Len(a)) = a

\* the fragment ends inside the text value: after its opening quote, before its closing one
TruncatedInsideText ==
    /\ streamed.cut >= Len(EnvelopeHead(streamed.textFirst))
    /\ streamed.cut < Len(EnvelopeHead(streamed.textFirst)) + Len(EncodeJSONString(streamed.text)) + 1

\* C18: for a fragment of an envelope cut inside the text value, the result has
\* isComplete = false and its text is a prefix of the decoded text of the whole
\* envelope (never the raw fragment); the whole envelope gives the text, complete.
C18_TruncatedTextIsPrefix ==
    extractResult.done =>
        /\ TruncatedInsideText =>
              /\ ~extractResult.isComplete
              /\ extractResult.text.k = "str"
              /\ IsPrefix(extractResult.text.s, streamed.text)
        /\ streamed.cut = Len(Envelope(streamed.text, streamed.textFirst)) =>
              /\ extractResult.isComplete
              /\ extractResult.text = JSStr(streamed.text)
              /\ extractResult.lang = JSStr("en-US")

\* a fragment that ends on the backslash of an escape inside the text value
C18_Witness ==
    /\ extractResult.done
    /\ TruncatedInsideText
    /\ ~extractResult.isComplete
    /\ Ch(Fragment, Len(Fragment)) = "\\"
    /\ Len(Fragment) > Len(EnvelopeHead(streamed.textFirst)) + 1

(***************************************************************************)
(* Failures of the tool adapters inside a tool round                       *)
(***************************************************************************)
SearchError == "Error fetching search results."

FailedSearches ==
    Cardinality({i \in DOMAIN toolLog : toolLog[i].tool = "searchWeb" /\ ~toolLog[i].ok})

\* tool results holding the error string: those of the rounds fed back to the
\* provider and those of the round being dispatched
SearchErrorResults ==
    Cardinality({i \in DOMAIN conversationMessages :
                    /\ conversationMessages[i].role = "tool"
                    /\ conversationMessages[i].content = SearchError})
    + Cardinality({i \in DOMAIN toolResults : toolResults[i].content = SearchError})

\* C21: when the search provider fails during a tool_search dispatch, searchWeb
\* returns its error string instead of raising: the string is appended as the tool
\* result of that call, the for-of loop goes on to the next call, nothing enters the
\* catch block because of it, and the result is in the message list the next round sends.
C21_SearchFailureIsToolResult ==
    /\ [](raised # "searchWeb")
    /\ [](FailedSearches = SearchErrorResults)
    /\ [][(toolLog' # toolLog /\ Last(toolLog').tool = "searchWeb" /\ ~Last(toolLog').ok) =>
            /\ pc' = "dispatch"
            /\ raised' = raised
            /\ toolResults' = Append(toolResults, ToolResult(toolCalls[callIdx], SearchError))
            /\ callIdx' = callIdx + 1]_vars
    /\ [][(pc = "dispatch" /\ pc' # "dispatch" /\ raised' = raised) =>
            /\ pc' = "create"
            /\ Len(conversationMessages') = Len(conversationMessages) + 1 + Len(toolResults)]_vars

\* a turn whose only search failed ends with the final answer of the next round
C21_Witness ==
    /\ pc = "done"
    /\ raised = ""
    /\ rounds = 2
    /\ FailedSearches = 1
    /\ Last(conversationMessages).role = "tool"
    /\ Last(conversationMessages).content = SearchError
    /\ Last(transport).op = "ai_indicator.clear"

FailedAlerts ==
    Cardinality({i \in DOMAIN toolLog : toolLog[i].tool = "sendEmergencyAlert" /\ ~toolLog[i].ok})

\* C22: when the delivery of the alert fails during a tool_alert dispatch,
\* sendEmergencyAlert returns false without raising and the turn continues: a tool
\* result with the call's id is appended, the for-of loop goes on, nothing enters the
\* catch block because of it.
C22_AlertFailureContinues ==
    /\ [](raised # "sendEmergencyAlert")
    /\ [][(toolLog' # toolLog /\ Last(toolLog').tool = "sendEmergencyAlert" /\ ~Last(toolLog').ok) =>
            /\ pc' = "dispatch"
            /\ raised' = raised
            /\ Len(toolResults') = Len(toolResults) + 1
            /\ Last(toolResults').tool_call_id = toolCalls[callIdx].id
            /\ Last(toolResults').role = "tool"
            /\ callIdx' = callIdx + 1]_vars

\* a turn whose alert was not delivered opens the next round and publishes its answer
C22_Witness ==
    /\ pc = "done"
    /\ raised = ""
    /\ rounds = 2
    /\ FailedAlerts = 1
    /\ AlertsSent = 1
    /\ Last(conversationMessages).role = "tool"
    /\ OpsAt({"final"}) # {}
    /\ OpsAt({"fallback"}) = {}

(***************************************************************************)
(* Termination of the completion loop                                      *)
(***************************************************************************)
\* the loop was just left: by its break (DONE), by an exception (ERROR)
LoopDone == pc = "finalUpdate"
LoopError == pc = "catchEvent" /\ raised \notin {"", "finalUpdate", "sendClear"}

\* the assistant turns with tool calls in the message list: the tool rounds completed
ToolRounds ==
    Cardinality({i \in DOMAIN conversationMessages : conversationMessages[i].role = "assistant"
                                                     /\ conversationMessages[i].tool_calls # <<>>})

\* C23: the loop is left by its break exactly when a round's stream ends with no
\* accumulated tool call; a round that ends with at least one and in which nothing
\* raises is followed by another request, without any count of rounds being looked at
\* (the request is opened whatever the number of rounds so far); and when every awaited
\* call returns and the provider eventually emits a tool-free round, every turn that
\* entered the loop leaves it, by the break or by an exception.
C23_LoopEndsOnToolFreeRound ==
    /\ [][(pc = "stream" /\ pc' = "finalUpdate") => Len(toolCalls) = 0]_vars
    /\ [][(pc = "stream" /\ pc' = "dispatch") => Len(toolCalls) > 0]_vars
    /\ [][(pc # "finalUpdate" /\ pc' = "finalUpdate") => (pc = "stream" /\ Len(toolCalls) = 0)]_vars
    /\ [][(pc = "stream" /\ pc' \notin {"stream", "partialUpdate"} /\ raised' = raised) =>
             (pc' = "finalUpdate" <=> Len(toolCalls) = 0)]_vars
    /\ [][(pc = "dispatch" /\ pc' # "dispatch" /\ raised' = raised) =>
             (pc' = "create" /\ ToolRounds' = ToolRounds + 1)]_vars
    /\ [](pc = "create" => (rounds = ToolRounds /\ ENABLED CreateCompletion))
    /\ (pc = "create") ~> (LoopDone \/ LoopError)
    /\ (pc = "retrieve") ~> (pc \in {"done", "rejected"})

\* every round before the last allowed one was a tool round, and the loop went on
C23_Witness ==
    /\ rounds = MaxRounds
    /\ ToolRounds = MaxRounds - 1
    /\ pc = "done"
    /\ raised = ""

(***************************************************************************)
(* A session: the chat client delivers events to the agent, and each       *)
(* message.new event starts an invocation of handleMessage (rag.ts 57-59,  *)
(* 435-707) that runs interleaved with the others at its awaits. The       *)
(* locals of invocation t are turns[t]; channel, now and lastInteractionTs *)
(* are shared. Retrieval, history and geocoding (lines 456-485) write      *)
(* nothing shared and are part of the step that sends the placeholder; the *)
(* dispatch of a round's calls (lines 630-682) is one step; the locals of   *)
(* an invocation are dropped when it returns.                              *)
(***************************************************************************)
MaxStops == 1
MaxSessionChunks == 1
MaxUnheard == 1

Invocations == 1..2

NoTurn ==
    [pc |-> "waiting", message |-> "", arrived |-> 0, channelMessage |-> 0,
     accumulatedText |-> "", currentContent |-> "", toolCalls |-> <<>>,
     lastUpdate |-> 0, rounds |-> 0, chunks |-> 0, raised |-> ""]

\* events the chat client emits: a user's message, the echo of an agent-generated
\* message (the placeholder, an answer), a message.new event without a message, and
\* the client's "stop generating" event (part_002 241-254)
SessionEvents ==
    { [type |-> "message.new", hasMessage |-> TRUE, ai_generated |-> FALSE, text |-> "i want to die"],
      [type |-> "message.new", hasMessage |-> TRUE, ai_generated |-> FALSE, text |-> "{\"text\":\"\"}"],
      [type |-> "message.new", hasMessage |-> TRUE, ai_generated |-> TRUE, text |-> ""],
      [type |-> "message.new", hasMessage |-> TRUE, ai_generated |-> TRUE,
       text |-> "{\"lang\": \"en-US\", \"text\": \"Hello\"}"],
      [type |-> "message.new", hasMessage |-> FALSE, ai_generated |-> FALSE, text |-> ""],
      [type |-> "ai_indicator.stop", hasMessage |-> FALSE, ai_generated |-> FALSE, text |-> ""] }

SessionToolDeltas == { ToolDelta(0, "c0", "tool_alert", "{}") }

\* variant: handleMessage listens to every event of the chat client
SubscribedToAll(type) == TRUE

\* line 58: this.chatClient.on("message.new", this.handleMessage)
Subscribed(type) == type = "message.new"

\* variant: the placeholder kept in a field of the agent, which the latest turn overwrites
PublishTargetShared(t) ==
    CHOOSE id \in {turns[u].channelMessage : u \in Invocations} :
        \A u \in Invocations : turns[u].channelMessage <= id

\* channelMessage.id of the invocation: const { message: channelMessage } of line 496
PublishTarget(t) == turns[t].channelMessage

\* the transport call op of invocation t, with the message id it names
Publish(t, op) ==
    [publishes EXCEPT ![t] = Append(@, [op |-> op, target |-> PublishTarget(t)])]

\* handleMessage returns (resolves or rejects): its locals are gone; what stays here
\* is what the invocation was about
Returned(turn, how) ==
    [NoTurn EXCEPT !.pc = how, !.message = turn.message, !.arrived = turn.arrived,
                   !.channelMessage = turn.channelMessage, !.raised = turn.raised]

\* values Date.now() returns to the invocations of a session
SessionClockReads == {time \in {now, now + ThrottleMs + TimeStep} : time <= MaxTime}

Running(t) == turns[t].pc \notin {"waiting", "ignored", "done", "rejected"}

\* variant: the timestamp is written before the early returns
InteractionTsOnArrival(ts, time, accepted) == time

\* lines 436, 450-452: this.lastInteractionTs = Date.now() after both early returns
InteractionTs(ts, time, accepted) == IF accepted THEN time ELSE ts

\* variant: the early return of line 436 does not look at the ai_generated flag
StartsTurnUnlessEmpty(hasMessage, ai_generated, text) == hasMessage /\ Truthy(text)

\* lines 436 and 450: neither early return is taken (text is the decoded text)
StartsTurn(hasMessage, ai_generated, text) == hasMessage /\ ~ai_generated /\ Truthy(text)

\* lines 435-452 for invocation t, Date.now() = time
SessionHandleMessage(t, e, time) ==
    LET text == IF e.hasMessage THEN OptProp(DecodeInbound(e.text), "text") ELSE JSUndefined
        accepted == StartsTurn(e.hasMessage, e.ai_generated, text)
    IN  /\ turns[t].pc = "waiting"
        /\ \A u \in 1..(t - 1) : turns[u].pc # "waiting"
        /\ now' = time
        /\ channel' = IF e.hasMessage /\ ~e.ai_generated
                      THEN Append(channel, Msg(e.text, FALSE)) ELSE channel
        /\ lastInteractionTs' = InteractionTs(lastInteractionTs, time, accepted)
        /\ turns' = [turns EXCEPT ![t] =
                        IF accepted
                        THEN [@ EXCEPT !.pc = "sendMessage", !.message = StringOf(text),
                                       !.arrived = time]
                        ELSE Returned(@, "ignored")]

\* the chat client emits event e: its listeners run; the stop event is sent by the
\* client while an answer is being generated
Emit(e, time) ==
    /\ e.type = "ai_indicator.stop" =>
          /\ stops < MaxStops
          /\ time = now
          /\ \E t \in Invocations : Running(t) /\ turns[t].channelMessage # 0
    /\ stops' = IF e.type = "ai_indicator.stop" THEN stops + 1 ELSE stops
    /\ IF Subscribed(e.type)
       THEN \E t \in Invocations : SessionHandleMessage(t, e, time)
       ELSE UNCHANGED <<now, channel, lastInteractionTs, turns>>
    /\ UNCHANGED <<publishes, disposePc, unheard>>

\* lines 456-499: the awaits that write nothing shared, then channel.sendMessage
SessionSendMessage(t) ==
    /\ turns[t].pc = "sendMessage"
    /\ \E ok \in BOOLEAN :
          IF ok
          THEN /\ channel' = Append(channel, Msg("", TRUE))
               /\ turns' = [turns EXCEPT ![t] = [@ EXCEPT !.pc = "sendThinking",
                                                           !.channelMessage = Len(channel) + 1]]
               /\ publishes' = [publishes EXCEPT ![t] =
                                    Append(@, [op |-> "sendMessage", target |-> Len(channel) + 1])]
          ELSE /\ turns' = [turns EXCEPT ![t] = Returned(@, "rejected")]
               /\ UNCHANGED <<channel, publishes>>
    /\ UNCHANGED <<now, lastInteractionTs, stops, disposePc, unheard>>

\* lines 501-571
SessionSendThinking(t) ==
    /\ turns[t].pc = "sendThinking"
    /\ \E ok \in BOOLEAN :
          IF ok
          THEN /\ publishes' = Publish(t, "AI_STATE_THINKING")
               /\ turns' = [turns EXCEPT ![t] = [@ EXCEPT !.pc = "create",
                                                           !.accumulatedText = "",
                                                           !.lastUpdate = now]]
          ELSE /\ turns' = [turns EXCEPT ![t] = Returned(@, "rejected")]
               /\ UNCHANGED publishes
    /\ UNCHANGED <<now, channel, lastInteractionTs, stops, disposePc, unheard>>

\* line 574
SessionCreateCompletion(t) ==
    /\ turns[t].pc = "create"
    /\ turns[t].rounds < MaxRounds
    /\ \E ok \in BOOLEAN :
          turns' = [turns EXCEPT ![t] =
                       IF ok
                       THEN [@ EXCEPT !.pc = "stream", !.rounds = @ + 1,
                                      !.currentContent = "", !.toolCalls = <<>>]
                       ELSE [@ EXCEPT !.pc = CatchEntry, !.rounds = @ + 1, !.raised = "create"]]
    /\ UNCHANGED <<now, channel, lastInteractionTs, publishes, stops, disposePc, unheard>>

\* lines 588-601
SessionStreamContent(t, content, time) ==
    /\ turns[t].pc = "stream"
    /\ turns[t].chunks < MaxSessionChunks
    /\ now' = time
    /\ turns' = [turns EXCEPT ![t] =
                    [@ EXCEPT !.chunks = @ + 1,
                              !.currentContent = @ \o content,
                              !.pc = IF content # "" /\ ThrottleElapsed(time, turns[t].lastUpdate)
                                     THEN "partialUpdate" ELSE "stream"]]
    /\ UNCHANGED <<channel, lastInteractionTs, publishes, stops, disposePc, unheard>>

\* lines 596-599
SessionPartialUpdate(t) ==
    /\ turns[t].pc = "partialUpdate"
    /\ \E ok \in BOOLEAN :
          IF ok
          THEN LET text == turns[t].accumulatedText \o turns[t].currentContent IN
               /\ publishes' = Publish(t, "partial")
               /\ channel' = [channel EXCEPT ![PublishTarget(t)].text = text]
               /\ turns' = [turns EXCEPT ![t] = [@ EXCEPT !.pc = "stream", !.lastUpdate = now]]
          ELSE /\ turns' = [turns EXCEPT ![t] = [@ EXCEPT !.pc = CatchEntry, !.raised = "partialUpdate"]]
               /\ UNCHANGED <<publishes, channel>>
    /\ UNCHANGED <<now, lastInteractionTs, stops, disposePc, unheard>>

\* lines 603-621
SessionStreamToolCalls(t, tc) ==
    /\ turns[t].pc = "stream"
    /\ turns[t].chunks < MaxSessionChunks
    /\ turns' = [turns EXCEPT ![t] = [@ EXCEPT !.chunks = @ + 1,
                                                !.toolCalls = MergeToolCallDelta(@, tc, now)]]
    /\ UNCHANGED <<now, channel, lastInteractionTs, publishes, stops, disposePc, unheard>>

\* line 588: reading the stream raises
SessionStreamError(t) ==
    /\ turns[t].pc = "stream"
    /\ turns' = [turns EXCEPT ![t] = [@ EXCEPT !.pc = CatchEntry, !.raised = "stream"]]
    /\ UNCHANGED <<now, channel, lastInteractionTs, publishes, stops, disposePc, unheard>>

\* lines 624-682: the break, or the round's calls dispatched and fed back
SessionStreamEnd(t) ==
    /\ turns[t].pc = "stream"
    /\ turns' = [turns EXCEPT ![t] =
                    IF NoToolCalls(turns[t].toolCalls)
                    THEN [@ EXCEPT !.pc = "finalUpdate",
                                   !.accumulatedText = @ \o turns[t].currentContent]
                    ELSE IF \E k \in DOMAIN turns[t].toolCalls :
                                \/ turns[t].toolCalls[k].hole
                                \/ ~JSONParse(turns[t].toolCalls[k].arguments).ok
                    THEN [@ EXCEPT !.pc = CatchEntry, !.raised = "dispatch"]
                    ELSE [@ EXCEPT !.pc = "create", !.toolCalls = <<>>]]
    /\ UNCHANGED <<now, channel, lastInteractionTs, publishes, stops, disposePc, unheard>>

\* lines 684-688
SessionFinalUpdate(t) ==
    /\ turns[t].pc = "finalUpdate"
    /\ \E ok \in BOOLEAN :
          IF ok
          THEN /\ publishes' = Publish(t, "final")
               /\ channel' = [channel EXCEPT ![PublishTarget(t)].text = Trim(turns[t].accumulatedText)]
               /\ turns' = [turns EXCEPT ![t].pc = "sendClear"]
          ELSE /\ turns' = [turns EXCEPT ![t] = [@ EXCEPT !.pc = CatchEntry, !.raised = "finalUpdate"]]
               /\ UNCHANGED <<publishes, channel>>
    /\ UNCHANGED <<now, lastInteractionTs, stops, disposePc, unheard>>

\* lines 690-694
SessionSendClear(t) ==
    /\ turns[t].pc = "sendClear"
    /\ \E ok \in BOOLEAN :
          IF ok
          THEN /\ publishes' = Publish(t, "ai_indicator.clear")
               /\ turns' = [turns EXCEPT ![t] = Returned(@, "done")]
          ELSE /\ turns' = [turns EXCEPT ![t] = [@ EXCEPT !.pc = CatchEntry, !.raised = "sendClear"]]
               /\ UNCHANGED publishes
    /\ UNCHANGED <<now, channel, lastInteractionTs, stops, disposePc, unheard>>

\* lines 697-702
SessionSendErrorEvent(t) ==
    /\ turns[t].pc = "catchEvent"
    /\ \E ok \in BOOLEAN :
          IF ok
          THEN /\ publishes' = Publish(t, "AI_STATE_ERROR")
               /\ turns' = [turns EXCEPT ![t].pc = "catchUpdate"]
          ELSE /\ turns' = [turns EXCEPT ![t] = Returned(@, "rejected")]
               /\ UNCHANGED publishes
    /\ UNCHANGED <<now, channel, lastInteractionTs, stops, disposePc, unheard>>

\* lines 703-705
SessionFallbackUpdate(t) ==
    /\ turns[t].pc = "catchUpdate"
    /\ \E ok \in BOOLEAN :
          IF ok
          THEN /\ publishes' = Publish(t, "fallback")
               /\ channel' = [channel EXCEPT ![PublishTarget(t)].text = FallbackEnvelope]
               /\ turns' = [turns EXCEPT ![t] = Returned(@, "done")]
          ELSE /\ turns' = [turns EXCEPT ![t] = Returned(@, "rejected")]
               /\ UNCHANGED <<publishes, channel>>
    /\ UNCHANGED <<now, lastInteractionTs, stops, disposePc, unheard>>

\* what a session's steps leave alone: the locals of the single turn of Spec and the
\* variables of the other specifications
sessionFrame ==
    <<pc, message, lat, long, retrievedContext, conversationHistory, locationName,
      conversationMessages, accumulatedText, lastUpdate, currentContent, roundContent,
      toolCalls, toolResults, callIdx, rounds, chunks, transport, toolLog, raised,
      channelMessage, parseLog, roundStart, newChat, histVars, deltaVars, capVars, retrVars, extrVars>>

\* a step of invocation t
TurnStep(t) ==
    /\ \/ SessionSendMessage(t)
       \/ SessionSendThinking(t)
       \/ SessionCreateCompletion(t)
       \/ \E time \in SessionClockReads : SessionStreamContent(t, "a", time)
       \/ SessionPartialUpdate(t)
       \/ \E tc \in SessionToolDeltas : SessionStreamToolCalls(t, tc)
       \/ SessionStreamError(t)
       \/ SessionStreamEnd(t)
       \/ SessionFinalUpdate(t)
       \/ SessionSendClear(t)
       \/ SessionSendErrorEvent(t)
       \/ SessionFallbackUpdate(t)
    /\ UNCHANGED sessionFrame

InitSession ==
    /\ InitAgent
    /\ InitHistoryIdle
    /\ InitDeltaIdle
    /\ InitCapIdle
    /\ InitRetrieveIdle
    /\ InitExtractIdle
    /\ turns = [t \in Invocations |-> NoTurn]
    /\ publishes = [t \in Invocations |-> <<>>]
    /\ stops = 0
    /\ disposePc = "idle"
    /\ unheard = 0
    /\ newChat = <<>>

NextSession ==
    \/ \E e \in SessionEvents, time \in SessionClockReads : Emit(e, time) /\ UNCHANGED sessionFrame
    \/ \E t \in Invocations : SessionSendMessage(t) /\ UNCHANGED sessionFrame
    \/ \E t \in Invocations : SessionSendThinking(t) /\ UNCHANGED sessionFrame
    \/ \E t \in Invocations : SessionCreateCompletion(t) /\ UNCHANGED sessionFrame
    \/ \E t \in Invocations, time \in SessionClockReads :
          SessionStreamContent(t, "a", time) /\ UNCHANGED sessionFrame
    \/ \E t \in Invocations : SessionPartialUpdate(t) /\ UNCHANGED sessionFrame
    \/ \E t \in Invocations, tc \in SessionToolDeltas :
          SessionStreamToolCalls(t, tc) /\ UNCHANGED sessionFrame
    \/ \E t \in Invocations : SessionStreamError(t) /\ UNCHANGED sessionFrame
    \/ \E t \in Invocations : SessionStreamEnd(t) /\ UNCHANGED sessionFrame
    \/ \E t \in Invocations : SessionFinalUpdate(t) /\ UNCHANGED sessionFrame
    \/ \E t \in Invocations : SessionSendClear(t) /\ UNCHANGED sessionFrame
    \/ \E t \in Invocations : SessionSendErrorEvent(t) /\ UNCHANGED sessionFrame
    \/ \E t \in Invocations : SessionFallbackUpdate(t) /\ UNCHANGED sessionFrame

SpecSession == InitSession /\ [][NextSession]_vars

\* the invocations that passed both early returns of handleMessage
Accepted(t) == turns[t].pc \notin {"waiting", "ignored"}

OpsOf(t) == {publishes[t][i].op : i \in DOMAIN publishes[t]}

\* C24: turns of one session are not serialized: a second message is taken up while
\* the first turn is running and both run interleaved at their awaits. Each turn
\* creates its own placeholder, every transport call of a turn names the message that
\* turn created, a message's text is changed only by a step of the turn that created
\* it, and a turn that ran to its end made a final publish (the answer or the fallback).
C24_TurnsPublishOwnMessage ==
    /\ [](\A t \in DOMAIN turns : \A i \in DOMAIN publishes[t] :
             /\ turns[t].channelMessage # 0
             /\ publishes[t][i].target = turns[t].channelMessage)
    /\ [](\A t, u \in DOMAIN turns :
             (t # u /\ turns[t].channelMessage # 0) =>
                 turns[t].channelMessage # turns[u].channelMessage)
    /\ [][\A i \in DOMAIN channel :
             channel'[i] # channel[i] =>
                 \E t \in DOMAIN turns : /\ turns'[t] # turns[t]
                                         /\ turns[t].channelMessage = i
                                         /\ \A u \in DOMAIN turns : u # t => turns'[u] = turns[u]]_vars
    /\ [](\A t \in DOMAIN turns :
             turns[t].pc = "done" => OpsOf(t) \cap {"final", "fallback"} # {})

\* both turns are in flight at once, each after partial and final publishes on its
\* own message
C24_Witness ==
    /\ turns # <<>>
    /\ \A t \in Invocations :
          /\ turns[t].pc = "sendClear"
          /\ {"partial", "final"} \subseteq OpsOf(t)
          /\ channel[turns[t].channelMessage].text = "a"
    /\ turns[1].channelMessage > turns[2].channelMessage

\* C25: tool-call arguments are parsed only after the stream of the round has ended:
\* JSON.parse runs only inside the dispatch loop, on the arguments as accumulated, and
\* the accumulated calls no longer change; while deltas of a round can still arrive no
\* call of that round has been parsed; and no call of a round is parsed twice.
C25_ArgumentsParsedAfterStreamEnd ==
    /\ [][parseLog' # parseLog =>
            /\ pc = "dispatch"
            /\ parseLog' = Append(parseLog, ParseRecord(rounds, callIdx, toolCalls[callIdx].arguments))
            /\ toolCalls' = toolCalls]_vars
    /\ [][(toolCalls' # toolCalls /\ toolCalls' # <<>>) =>
            (pc = "stream" /\ parseLog' = parseLog
             /\ \A i \in DOMAIN parseLog : parseLog[i].round < rounds)]_vars
    /\ [](pc \in {"stream", "partialUpdate"} =>
             \A i \in DOMAIN parseLog : parseLog[i].round < rounds)
    /\ [](\A i, j \in DOMAIN parseLog :
             (parseLog[i].round = parseLog[j].round /\ parseLog[i].index = parseLog[j].index) => i = j)

\* the arguments of a call arrived in two fragments and were parsed once, whole
C25_Witness ==
    /\ pc = "done"
    /\ raised = ""
    /\ Len(parseLog) = 1
    /\ parseLog[1].arguments = "{\"reason\":\"risk\"}"
    /\ OpsAt({"final"}) # {}

\* C26: partial publishes are throttled per turn: a partial publish is made only on a
\* text delta read more than ThrottleMs after lastUpdate, the time read right after the
\* previous partial publish of the turn (the time read before the loop when there was
\* none), so two consecutive partial publishes are more than ThrottleMs apart; and the
\* published text is accumulatedText followed by the round's text up to that delta.
C26_PartialPublishThrottled ==
    /\ [](pc = "partialUpdate" =>
             /\ now - lastUpdate > ThrottleMs
             /\ roundContent # <<>>
             /\ Last(roundContent) # "")
    /\ [][(transport' # transport /\ Last(transport').op = "partial") =>
            /\ pc = "partialUpdate"
            /\ now - lastUpdate > ThrottleMs
            /\ Last(transport').arg = accumulatedText \o Concat(roundContent)
            /\ channel'[channelMessage].text = Last(transport').arg
            /\ lastUpdate' >= now
            /\ lastUpdate' = now']_vars
    /\ [][lastUpdate' # lastUpdate =>
            (pc = "sendThinking" \/ Last(transport').op = "partial")]_vars

\* two partial publishes in one turn, the second with more text than the first
C26_Witness ==
    /\ PartialPublishes = 2
    /\ pc = "stream"
    /\ Last(transport).op = "partial"
    /\ Last(transport).arg = "a a"
    /\ \E i \in OpsAt({"partial"}) : transport[i].arg = "a"
    /\ lastUpdate > 2 * ThrottleMs

\* C27: the sequence the token-budgeted getConversationHistory returns is in
\* chronological order and is a contiguous run of the most recent non-empty decoded
\* messages of the fetched history: it is the last k of them, in transport order, for
\* some k (none when the fetch fails or the assembler's catch is entered).
C27_HistoryIsNewestRunInOrder ==
    histResult.done =>
        LET eligible == EligibleTurns(histMessages)
            n == Len(eligible)
            k == Len(Kept)
        IN  /\ k <= n
            /\ \A i \in 1..k : Kept[i] = eligible[n - k + i]

\* two different turns are kept in transport order and an older one is left out
C27_Witness ==
    /\ histResult.done
    /\ Len(Kept) = 3
    /\ Len(EligibleTurns(histMessages)) = 4
    /\ Kept[1].role # Kept[2].role
    /\ Kept[2].content # Kept[3].content
    /\ Kept[1].content # Kept[3].content

\* C28: after a tool round that accumulated k tool calls the message list holds one
\* assistant turn with the k tool-call records followed by exactly k tool turns, one
\* per call, with the calls' ids in call-index order. The code pushes a tool turn only
\* for the calls named tool_search or tool_alert.
C28_ToolRoundAppendsCallAndResults ==
    \A i \in DOMAIN conversationMessages :
        LET calls == conversationMessages[i].tool_calls
            k == Len(calls)
        IN  k > 0 =>
              /\ i + k <= Len(conversationMessages)
              /\ \A j \in 1..k :
                    /\ conversationMessages[i + j].role = "tool"
                    /\ conversationMessages[i + j].tool_call_id = calls[j].id
              /\ (i + k < Len(conversationMessages)) => conversationMessages[i + k + 1].role # "tool"

\* C29: an ai_indicator.stop event received while a turn is running has no effect on
\* the agent: no listener runs, so the step that delivers it changes no turn's locals,
\* no message, no transport call and not the timestamp; a turn that was running can
\* take its next step (the stream is not cancelled, the next request can be opened),
\* and since nothing but the count of stop events differs, it ends as without the event.
C29_StopEventHasNoEffect ==
    /\ [][stops' # stops =>
            /\ turns' = turns
            /\ channel' = channel
            /\ publishes' = publishes
            /\ lastInteractionTs' = lastInteractionTs
            /\ now' = now]_vars
    /\ [](\A t \in DOMAIN turns :
             ( /\ stops > 0
               /\ Running(t)
               /\ ~(turns[t].pc = "create" /\ turns[t].rounds = MaxRounds) ) => ENABLED TurnStep(t))

\* the stop event came during the only turn, which went on through a tool round to
\* its final publish
C29_Witness ==
    /\ stops = 1
    /\ turns[1].pc = "sendClear"
    /\ turns[1].rounds = 2
    /\ turns[1].raised = ""
    /\ "final" \in OpsOf(1)
    /\ turns[2].pc = "waiting"

\* the invocation of the most recent accepted message
LatestAccepted == CHOOSE t \in DOMAIN turns : Accepted(t) /\ \A u \in DOMAIN turns : Accepted(u) => u <= t

\* C30: lastInteractionTs is written exactly when handleMessage accepts a message (it
\* passes both early returns): the step that accepts one sets it to the time read
\* then, every other step (an ignored event, a request, a stream chunk, a dispatch, a
\* publish, the end of a turn) leaves it as it is, and at any moment, also while turns
\* are running, getLastInteraction gives the arrival time of the most recently
\* accepted message (the construction time when none was accepted).
C30_LastInteractionIsLatestAccepted ==
    /\ [](lastInteractionTs = IF \E t \in DOMAIN turns : Accepted(t)
                              THEN turns[LatestAccepted].arrived ELSE 0)
    /\ [][(\E t \in DOMAIN turns : ~Accepted(t) /\ Accepted(t)') => lastInteractionTs' = now']_vars
    /\ [][(\A t \in DOMAIN turns : Accepted(t)' = Accepted(t)) =>
             lastInteractionTs' = lastInteractionTs]_vars

\* the second message was accepted later than the first, whose turn is still streaming
C30_Witness ==
    /\ turns # <<>>
    /\ turns[1].pc = "stream"
    /\ Accepted(2)
    /\ turns[2].arrived > turns[1].arrived
    /\ turns[1].arrived > 0
    /\ lastInteractionTs = turns[2].arrived

(***************************************************************************)
(* The published answer and the clear event, rag.ts 684-706                *)
(***************************************************************************)
\* C31: once the final-answer publish of a turn has succeeded, the turn writes the
\* text of its message no more and emits no AI_STATE_ERROR. The clear event is sent
\* inside the try block, so in the code its failure runs the catch block.
C31_PublishedAnswerIsKept ==
    \A i \in DOMAIN transport :
        transport[i].op = "final" =>
            \A j \in (i + 1)..Len(transport) :
                /\ transport[j].op \notin {"partial", "final", "fallback"}
                /\ transport[j] # ErrorEvent

(***************************************************************************)
(* The visible text over the rounds of a turn, rag.ts 570-628 and 684-688  *)
(***************************************************************************)
\* C32: in a turn whose final-answer publish succeeded, the text of every partial
\* publish is a prefix of the text of every later partial publish and of the untrimmed
\* final text (accumulatedText, which nothing changes after the loop). The code adds a
\* round's content to accumulatedText only in the round without tool calls.
C32_VisibleTextOnlyGrows ==
    (\E f \in DOMAIN transport : transport[f].op = "final") =>
        \A i \in DOMAIN transport :
            transport[i].op = "partial" =>
                /\ IsPrefix(transport[i].arg, accumulatedText)
                /\ \A j \in (i + 1)..Len(transport) :
                       transport[j].op = "partial" => IsPrefix(transport[i].arg, transport[j].arg)


\* the partial publishes of the round whose stream was opened last
RoundPartials == {i \in DOMAIN transport : i > roundStart /\ transport[i].op = "partial"}

\* C32 as the code has it: the text of a partial publish is a prefix of the text of
\* every later partial publish of the same round and, while the round's stream is
\* read, of the visible buffer accumulatedText + currentContent; once the final-answer
\* publish has succeeded the partial publishes of the last round are prefixes of the
\* untrimmed final text. Nothing of a round that ended with tool calls is kept.
C32_VisibleTextGrowsWithinRound ==
    /\ \A i \in RoundPartials : \A j \in RoundPartials :
           i < j => IsPrefix(transport[i].arg, transport[j].arg)
    /\ pc \in {"stream", "partialUpdate"} =>
           \A i \in RoundPartials : IsPrefix(transport[i].arg, accumulatedText \o currentContent)
    /\ (\E f \in DOMAIN transport : transport[f].op = "final") =>
           \A i \in RoundPartials : IsPrefix(transport[i].arg, accumulatedText)

\* a tool round and the answer round have both published a partial text, and the
\* final answer is out
C32_Witness ==
    /\ pc = "done"
    /\ Last(transport).op = "ai_indicator.clear"
    /\ \E i \in RoundPartials : transport[i].arg # ""
    /\ \E i \in 1..roundStart :
           transport[i].op = "partial" /\ ~IsPrefix(transport[i].arg, accumulatedText)

(***************************************************************************)
(* Two message.new events and the first provider request of each turn,     *)
(* rag.ts 435-568: between the arrival of a message and the history fetch  *)
(* of its turn (the await of line 456) the channel can get further         *)
(* messages. The locals of invocation t are turns[t]; the rest of a turn   *)
(* is the one step that publishes its answer.                              *)
(***************************************************************************)
NoArrival ==
    [pc |-> "waiting", message |-> JSUndefined, position |-> 0, history |-> <<>>,
     request |-> <<>>, channelMessage |-> 0]

\* the user's messages, the echo of an agent-generated message, a message without text
OverlapEvents ==
    { [hasMessage |-> TRUE, ai_generated |-> FALSE, text |-> "i want to die"],
      [hasMessage |-> TRUE, ai_generated |-> FALSE, text |-> "{\"text\":\"hospital near me\"}"],
      [hasMessage |-> TRUE, ai_generated |-> TRUE, text |-> ""],
      [hasMessage |-> TRUE, ai_generated |-> FALSE, text |-> "{\"text\":\"\"}"] }

\* what a turn leaves in its message: an answer envelope, or a text that is none
OverlapAnswers == {"{\"lang\": \"en-US\", \"text\": \"Hello\"}", "Hello"}

\* lines 435-452 for invocation t: the message is on the channel when its event arrives
OverlapHandleMessage(t, e) ==
    LET text == OptProp(DecodeInbound(e.text), "text")
        accepted == StartsTurn(e.hasMessage, e.ai_generated, text)
    IN  /\ turns[t].pc = "waiting"
        /\ \A u \in 1..(t - 1) : turns[u].pc # "waiting"
        /\ channel' = IF ~e.ai_generated THEN Append(channel, Msg(e.text, FALSE)) ELSE channel
        /\ lastInteractionTs' = InteractionTs(lastInteractionTs, now, accepted)
        /\ turns' = [turns EXCEPT ![t] =
                        IF accepted
                        THEN [@ EXCEPT !.pc = "history", !.message = text,
                                       !.position = Len(channel) + 1]
                        ELSE [@ EXCEPT !.pc = "ignored"]]

\* lines 456-469: retrieval, then the history fetch on the channel as it is now
OverlapGetHistory(t) ==
    /\ turns[t].pc = "history"
    /\ \E context \in RetrievedContexts, queryFails \in BOOLEAN :
          turns' = [turns EXCEPT ![t] =
                       [@ EXCEPT !.pc = "sendMessage",
                                 !.history = getConversationHistory(
                                                 channel, availableForHistory(context), queryFails)]]
    /\ UNCHANGED <<channel, lastInteractionTs>>

\* lines 496-499
OverlapSendMessage(t) ==
    /\ turns[t].pc = "sendMessage"
    /\ \E ok \in BOOLEAN :
          IF ok
          THEN /\ channel' = Append(channel, Msg("", TRUE))
               /\ turns' = [turns EXCEPT ![t] = [@ EXCEPT !.pc = "request",
                                                           !.channelMessage = Len(channel) + 1]]
          ELSE /\ turns' = [turns EXCEPT ![t].pc = "rejected"]
               /\ UNCHANGED channel
    /\ UNCHANGED lastInteractionTs

\* lines 501-568: the THINKING event, then the message list of the first request
OverlapFirstRequest(t) ==
    /\ turns[t].pc = "request"
    /\ \E ok \in BOOLEAN :
          turns' = [turns EXCEPT ![t] =
                       IF ok
                       THEN LET kept == historyToAdd(turns[t].history, turns[t].message) IN
                            [@ EXCEPT !.pc = "answer",
                                      !.request =
                                          <<Turn("system", "prompt")>>
                                          \o [i \in 1..Len(kept) |-> Turn(kept[i].role, kept[i].content)]
                                          \o <<Turn("user", turns[t].message.s)>>]
                       ELSE [@ EXCEPT !.pc = "rejected"]]
    /\ UNCHANGED <<channel, lastInteractionTs>>

\* lines 573-706: the turn runs to its end and leaves a text in its message
OverlapAnswer(t) ==
    /\ turns[t].pc = "answer"
    /\ \E text \in OverlapAnswers :
          channel' = [channel EXCEPT ![turns[t].channelMessage].text = text]
    /\ turns' = [turns EXCEPT ![t].pc = "done"]
    /\ UNCHANGED lastInteractionTs

overlapFrame == <<sessionFrame, now, publishes, stops, disposePc, unheard>>

InitOverlap ==
    /\ InitAgent
    /\ InitHistoryIdle
    /\ InitDeltaIdle
    /\ InitCapIdle
    /\ InitRetrieveIdle
    /\ InitExtractIdle
    /\ turns = [t \in Invocations |-> NoArrival]
    /\ publishes = <<>>
    /\ stops = 0
    /\ disposePc = "idle"
    /\ unheard = 0
    /\ newChat = <<>>

NextOverlap ==
    \/ \E t \in Invocations, e \in OverlapEvents : OverlapHandleMessage(t, e) /\ UNCHANGED overlapFrame
    \/ \E t \in Invocations : OverlapGetHistory(t) /\ UNCHANGED overlapFrame
    \/ \E t \in Invocations : OverlapSendMessage(t) /\ UNCHANGED overlapFrame
    \/ \E t \in Invocations : OverlapFirstRequest(t) /\ UNCHANGED overlapFrame
    \/ \E t \in Invocations : OverlapAnswer(t) /\ UNCHANGED overlapFrame

SpecOverlap == InitOverlap /\ [][NextOverlap]_vars

\* the user turns of a request whose content is the text of message
CopiesOf(request, current) ==
    {i \in DOMAIN request : request[i].role = "user" /\ JSStr(request[i].content) = current}

\* no other message of the channel has the text of the message at position
OnlyMessageWithItsText(position) ==
    \A k \in DOMAIN channel :
        k # position => DecodeHistoryText(channel[k].text) # DecodeHistoryText(channel[position].text)

\* C33: the message list of a turn's first provider request ends with the current user
\* message and holds it exactly once (when no other message of the channel has the
\* same text), also when a message reached the channel between the arrival of the
\* current one and the history fetch. The code drops the copy only when it is the last
\* entry of the history.
C33_CurrentMessageOnceAndLast ==
    \A t \in DOMAIN turns :
        turns[t].pc \in {"answer", "done"} =>
            /\ Last(turns[t].request) = Turn("user", turns[t].message.s)
            /\ OnlyMessageWithItsText(turns[t].position) =>
                  Cardinality(CopiesOf(turns[t].request, turns[t].message)) = 1

(***************************************************************************)
(* Events that start no turn, rag.ts 435-452                               *)
(***************************************************************************)
\* the event handleMessage has just been given carried no user message (none at all,
\* or the echo of an agent-generated one: the channel got no message), or a user
\* message whose decoded text is empty
StartsNoTurn ==
    \/ channel' = channel
    \/ ~Truthy(OptProp(DecodeInbound(Last(channel').text), "text"))

\* C34: a message flagged ai_generated, an event without a message and a message whose
\* decoded text is empty start no turn: the invocation returns at once, the timestamp
\* of the last interaction stays, nothing is sent to the transport and no message is
\* created; a returned invocation has made no transport call, has no placeholder and
\* can take no further step (no retrieval, history, provider or tool call).
C34_IgnoredEventsStartNoTurn ==
    /\ [][\A t \in DOMAIN turns :
             (turns[t].pc = "waiting" /\ turns'[t].pc # "waiting" /\ StartsNoTurn) =>
                 /\ turns'[t].pc = "ignored"
                 /\ lastInteractionTs' = lastInteractionTs
                 /\ publishes' = publishes
                 /\ \A k \in DOMAIN channel' : k > Len(channel) => ~channel'[k].ai_generated]_vars
    /\ [](\A t \in DOMAIN turns :
             turns[t].pc = "ignored" =>
                 /\ publishes[t] = <<>>
                 /\ turns[t].channelMessage = 0
                 /\ turns[t].rounds = 0
                 /\ ~ENABLED TurnStep(t))

\* the first turn has published its answer; the event that followed it later started
\* none and left the timestamp of the first
C34_Witness ==
    /\ turns[1].pc = "done"
    /\ "final" \in OpsOf(1)
    /\ turns[2].pc = "ignored"
    /\ Len(channel) = Len(CHOOSE prior \in PriorChannels : TRUE) + 2
    /\ lastInteractionTs = turns[1].arrived
    /\ now > lastInteractionTs

(***************************************************************************)
(* The indices of a round's tool-call deltas, rag.ts 603-634               *)
(***************************************************************************)
\* C35: whatever indices the tool-call deltas of a round carry, every accumulated call
\* is dispatched exactly once (its arguments are parsed once, in its round) and the
\* turn does not take the error path because of the indices. In the code an index
\* that is skipped leaves a hole in the array toolCalls, the for-of loop reads the
\* hole as undefined, and toolCall.function raises.
C35_IndexPatternNeverFails ==
    /\ raised # "toolCall.function"
    /\ (pc = "dispatch" /\ callIdx > Len(toolCalls)) =>
           \A k \in DOMAIN toolCalls :
               ~toolCalls[k].hole =>
                   Cardinality({p \in DOMAIN parseLog :
                                   parseLog[p].round = rounds /\ parseLog[p].index = k}) = 1

(***************************************************************************)
(* What the provider is told about an alert, rag.ts 662-670                *)
(***************************************************************************)
\* C36: the tool result of a tool_alert call says the alert was sent successfully only
\* when sendEmergencyAlert returned true. Read right after the dispatch of such a call:
\* its result is the last of toolResults, its delivery the last entry of toolLog. The
\* code awaits sendEmergencyAlert without looking at what it returns.
C36_AlertResultTellsDelivery ==
    (/\ pc = "dispatch"
     /\ callIdx > 1
     /\ callIdx - 1 <= Len(toolCalls)
     /\ toolCalls[callIdx - 1].name = "tool_alert") =>
        /\ Last(toolLog).tool = "sendEmergencyAlert"
        /\ Last(toolResults).tool_call_id = toolCalls[callIdx - 1].id
        /\ Last(toolResults).content = "Emergency alert sent successfully." => Last(toolLog).ok

(***************************************************************************)
(* dispose, rag.ts 50-55, while turns run: it unregisters handleMessage,   *)
(* awaits chatClient.disconnectUser and clears the timers of handlers (a   *)
(* set nothing is added to). The turns are those of the specification of   *)
(* overlapping arrivals.                                                   *)
(***************************************************************************)
\* variant: dispose leaves the listener registered
ListeningAlways(at) == TRUE

\* handleMessage is registered for message.new: init has called chatClient.on (line
\* 58) and dispose has not yet called chatClient.off (line 51)
Listening(at) == at = "idle"

\* the chat client emits a message.new event: handleMessage runs if it is registered
DisposeEmit(e) ==
    /\ IF Listening(disposePc)
       THEN /\ \E t \in Invocations : OverlapHandleMessage(t, e)
            /\ UNCHANGED unheard
       ELSE /\ unheard < MaxUnheard
            /\ unheard' = unheard + 1
            /\ UNCHANGED <<channel, lastInteractionTs, turns>>
    /\ UNCHANGED <<sessionFrame, now, publishes, stops, disposePc>>

\* lines 51-52: chatClient.off, then the call of disconnectUser
DisposeOff ==
    /\ disposePc = "idle"
    /\ disposePc' = "disconnectUser"
    /\ UNCHANGED <<sessionFrame, now, channel, lastInteractionTs, turns, publishes, stops, unheard>>

\* lines 52-54: disconnectUser resolves and dispose completes, or it raises
DisposeDisconnected ==
    /\ disposePc = "disconnectUser"
    /\ \E ok \in BOOLEAN : disposePc' = IF ok THEN "done" ELSE "rejected"
    /\ UNCHANGED <<sessionFrame, now, channel, lastInteractionTs, turns, publishes, stops, unheard>>

\* a step of the turn of invocation t
OverlapStep(t) ==
    /\ \/ OverlapGetHistory(t)
       \/ OverlapSendMessage(t)
       \/ OverlapFirstRequest(t)
       \/ OverlapAnswer(t)
    /\ UNCHANGED overlapFrame

NextDispose ==
    \/ \E e \in OverlapEvents : DisposeEmit(e)
    \/ \E t \in Invocations : OverlapGetHistory(t) /\ UNCHANGED overlapFrame
    \/ \E t \in Invocations : OverlapSendMessage(t) /\ UNCHANGED overlapFrame
    \/ \E t \in Invocations : OverlapFirstRequest(t) /\ UNCHANGED overlapFrame
    \/ \E t \in Invocations : OverlapAnswer(t) /\ UNCHANGED overlapFrame
    \/ DisposeOff
    \/ DisposeDisconnected

SpecDispose == InitOverlap /\ [][NextDispose]_vars

InFlight(t) == turns[t].pc \in {"history", "sendMessage", "request", "answer"}

\* C37: once dispose has completed no message.new event starts a turn (nor writes the
\* timestamp); dispose changes nothing of a turn in flight, which goes on with its
\* history, provider and publish calls whatever dispose has done so far.
C37_DisposeStopsNewTurnsOnly ==
    /\ [][disposePc = "done" =>
             /\ \A t \in DOMAIN turns : turns[t].pc = "waiting" => turns'[t].pc = "waiting"
             /\ lastInteractionTs' = lastInteractionTs]_vars
    /\ [][disposePc' # disposePc =>
             /\ turns' = turns
             /\ channel' = channel]_vars
    /\ [](\A t \in DOMAIN turns : InFlight(t) => ENABLED OverlapStep(t))

\* dispose has completed, a message.new event emitted since it unregistered the
\* handler started nothing, and the turn that was in flight has sent its first provider
\* request and is about to publish
C37_Witness ==
    /\ disposePc = "done"
    /\ unheard = 1
    /\ turns[2].pc = "waiting"
    /\ turns[1].pc = "answer"

(***************************************************************************)
(* The location of the envelope in the system prompt, rag.ts 446-448,      *)
(* 482-494 and 294-296: handleMessage up to the message list of the first  *)
(* request, for envelopes with and without coordinates                     *)
(***************************************************************************)
\* a coordinate as the client writes it into the envelope; "" is a coordinate left out
Latitudes == {"", "0", "0.0", "13.08", "-33.9"}
Longitudes == {"", "0", "80.27", "-0.5"}

Member(key, lit) == IF lit = "" THEN <<>> ELSE <<"\"" \o key \o "\":" \o lit>>

\* the envelope { text, location: { lat, long } }, the location left out when it has
\* no coordinate
LocatedEnvelope(la, lo) ==
    LET members == Member("lat", la) \o Member("long", lo) IN
    "{\"text\":\"clinic\""
    \o (IF members = <<>> THEN ""
        ELSE ",\"location\":{" \o members[1]
             \o (IF Len(members) = 2 THEN "," \o members[2] ELSE "") \o "}")
    \o "}"

LocatedEvents ==
    { [hasMessage |-> TRUE, ai_generated |-> FALSE, text |-> LocatedEnvelope(la, lo)] :
        la \in Latitudes, lo \in Longitudes }

NextPrompt ==
    \/ \E e \in LocatedEvents : HandleMessage(e) /\ Idle
    \/ Retrieve /\ Idle
    \/ GetHistory /\ Idle
    \/ Geocode /\ Idle
    \/ SendPlaceholder /\ Idle
    \/ SendThinking /\ Idle

SpecPrompt == Init /\ [][NextPrompt]_vars

\* the envelope carried a location with a numeric latitude and a numeric longitude
EnvelopeHasCoordinates == lat.k = "num" /\ long.k = "num"

\* C38: when the envelope carries a location with a latitude and a longitude, whatever
\* their numeric values (0 included), the resolver runs and the system prompt carries
\* the place name it returned; the prompt says "Not available" only when the envelope
\* has no location (none with both coordinates). The code tests lat && long, which a
\* coordinate 0 fails.
C38_EveryCoordinateIsResolved ==
    conversationMessages # <<>> =>
        /\ EnvelopeHasCoordinates =>
              /\ locationName \in PlaceNames
              /\ Includes(conversationMessages[1].content, "User Location: " \o locationName)
        /\ Includes(conversationMessages[1].content, "User Location: Not available") =>
              ~EnvelopeHasCoordinates

(***************************************************************************)
(* The escapes of a complete text field, chat-message.tsx 59-74            *)
(***************************************************************************)
\* the fragment ends after the closing quote of the text value and before the end of
\* the envelope: it does not parse as JSON and its text field is complete
CompleteTextField ==
    /\ streamed.cut > Len(EnvelopeHead(streamed.textFirst)) + Len(EncodeJSONString(streamed.text))
    /\ streamed.cut < Len(Envelope(streamed.text, streamed.textFirst))

\* C39: for a fragment that is not JSON but holds a complete text field, the text
\* returned is the JSON decoding of the field's string literal, for every combination
\* of the escapes of a line feed, a tab, a quote and a backslash. The code resolves the
\* escapes by four replacements one after the other, so the second backslash of an
\* escaped backslash is read together with a letter n or t that follows it.
C39_CompleteFieldDecodesAsJSON ==
    (extractResult.done /\ CompleteTextField) =>
        /\ ~extractResult.isComplete
        /\ extractResult.text = JSStr(streamed.text)


(***************************************************************************)
(* handleNewChatMessage of the chat client, unnamed/part_000 56-116        *)
(*   newChat.pc: "start" | "watch" | "fetch" | "awaitMember" | "done" |    *)
(*               "caught" | "returned"                                     *)
(*   newChat.events: the member.added events delivered on the new channel, *)
(*               each with the handler's position when it arrived          *)
(*   newChat.sent: the texts passed to newChannel.sendMessage              *)
(***************************************************************************)
MaxMemberEvents == 2    \* member.added events delivered on the new channel

CurrentUser == "u1"
AgentUser == "ai-bot"

\* user.id of the signed-in user: "" stands for a missing id
UserIds == {"", CurrentUser}

\* message.text typed into the empty chat
FirstTexts == {"hi", "{\"text\":\"hi\"}", "{\"text\":5}"}

\* event.member?.user?.id of a member.added event: "" stands for an absent id
MemberIds == {"", CurrentUser, AgentUser}

\* s.substring(0, 50)
Substring50(s) == SubSeq(s, 1, Min(50, Len(s)))

\* channelName: the parsed text, the default, or the raw text when JSON.parse
\* or the substring call raises
ChannelName(text) ==
    CHOOSE r \in {
    IF ~parsed.ok \/ PropThrows(parsed.val) THEN Substring50(text)
    ELSE LET t == GetProp(parsed.val, "text") IN
         IF t.k \in {"undef", "null"} THEN "New Writing Session"
         ELSE IF t.k # "str" THEN Substring50(text)
         ELSE IF Substring50(t.s) = "" THEN "New Writing Session"
         ELSE Substring50(t.s)
    : parsed \in {JSONParse(text)} } : TRUE

\* variant: any member with an id resolves the promise
IsAnyMember(id, userId) == id # ""

\* event.member?.user?.id && event.member.user.id !== user.id
IsOtherMember(id, userId) == id # "" /\ id # userId

newChatFrame == <<agentVars, histVars, deltaVars, capVars, retrVars, extrVars,
                  turns, publishes, stops, disposePc, unheard>>

InitNewChat ==
    /\ InitAgent
    /\ InitHistoryIdle
    /\ InitDeltaIdle
    /\ InitCapIdle
    /\ InitRetrieveIdle
    /\ InitExtractIdle
    /\ turns = <<>>
    /\ publishes = <<>>
    /\ stops = 0
    /\ disposePc = "idle"
    /\ unheard = 0
    /\ \E id \in UserIds, text \in FirstTexts :
          newChat = [pc |-> "start", userId |-> id, text |-> text, name |-> "",
                     listening |-> FALSE, resolved |-> FALSE, response |-> "none",
                     events |-> <<>>, sent |-> <<>>]

\* if (!user.id) return; the channel name and client.channel(...)
NewChatCreate ==
    /\ newChat.pc = "start"
    /\ newChat' = IF newChat.userId = "" THEN [newChat EXCEPT !.pc = "returned"]
                  ELSE [newChat EXCEPT !.pc = "watch", !.name = ChannelName(newChat.text)]
    /\ UNCHANGED newChatFrame

\* await newChannel.watch(), then the member.added listener and the fetch call
NewChatWatch ==
    /\ newChat.pc = "watch"
    /\ \E ok \in BOOLEAN :
          newChat' = IF ok THEN [newChat EXCEPT !.pc = "fetch", !.listening = TRUE]
                     ELSE [newChat EXCEPT !.pc = "caught"]
    /\ UNCHANGED newChatFrame

\* the /start-ai-agent response: setActiveChannel and navigate on OK, the catch
\* block when the response is not OK or fetch rejects
NewChatResponse ==
    /\ newChat.pc = "fetch"
    /\ \E outcome \in {"ok", "notOk", "rejected"} :
          newChat' = [newChat EXCEPT !.response = outcome,
                         !.pc = IF outcome = "ok" THEN "awaitMember" ELSE "caught"]
    /\ UNCHANGED newChatFrame

\* a member.added event on the new channel; the backend adds the agent only
\* once it has the request
NewChatMemberAdded ==
    /\ newChat.pc \notin {"start", "returned"}
    /\ Len(newChat.events) < MaxMemberEvents
    /\ \E id \in MemberIds :
          /\ id = AgentUser => (newChat.pc = "fetch" \/ newChat.response # "none")
          /\ newChat' =
                [newChat EXCEPT
                    !.events = Append(@, [id |-> id, at |-> newChat.pc, heard |-> newChat.listening]),
                    !.listening = IF newChat.listening /\ IsOtherMember(id, newChat.userId)
                                  THEN FALSE ELSE @,
                    !.resolved = IF newChat.listening /\ IsOtherMember(id, newChat.userId)
                                 THEN TRUE ELSE @]
    /\ UNCHANGED newChatFrame

\* await memberAddedPromise; await newChannel.sendMessage(message)
NewChatSend ==
    /\ newChat.pc = "awaitMember"
    /\ newChat.resolved
    /\ \E ok \in BOOLEAN :
          newChat' = IF ok THEN [newChat EXCEPT !.pc = "done", !.sent = Append(@, newChat.text)]
                     ELSE [newChat EXCEPT !.pc = "caught"]
    /\ UNCHANGED newChatFrame

NextNewChat ==
    \/ NewChatCreate
    \/ NewChatWatch
    \/ NewChatResponse
    \/ NewChatMemberAdded
    \/ NewChatSend

SpecNewChat == InitNewChat /\ [][NextNewChat]_vars

\* a member.added event of another user was delivered to the listener
OtherMemberHeard ==
    \E i \in DOMAIN newChat.events :
        /\ newChat.events[i].heard
        /\ newChat.events[i].id \notin {"", newChat.userId}

\* C40: the first message is sent only after /start-ai-agent returned OK and a
\* member.added event of another user was received on the new channel; when
\* the request fails the message is never sent; the listener is registered
\* before the request, so that an event arriving before the response is kept
\* and the message goes out once the response is OK.
C40_FirstMessageWaitsForAgent ==
    /\ newChat # <<>> =>
          /\ newChat.sent # <<>> =>
                /\ newChat.response = "ok"
                /\ OtherMemberHeard
                /\ newChat.sent = <<newChat.text>>
          /\ newChat.response \in {"notOk", "rejected"} => newChat.sent = <<>>
          /\ newChat.pc = "fetch" => newChat.listening \/ newChat.resolved
          /\ ( \E i \in DOMAIN newChat.events :
                  /\ newChat.events[i].at = "fetch"
                  /\ newChat.events[i].id \notin {"", newChat.userId} )
             => newChat.resolved
          /\ newChat.pc = "awaitMember" /\ newChat.resolved => ENABLED NewChatSend

\* the agent joined before the response came back and the message was sent
C40_Witness ==
    /\ newChat # <<>>
    /\ newChat.pc = "done"
    /\ newChat.sent = <<newChat.text>>
    /\ Len(newChat.events) = 1
    /\ newChat.events[1].id = AgentUser
    /\ newChat.events[1].at = "fetch"

====
